---- MODULE Spec2Model ----
(***************************************************************************)
(* Live markdown decoration engine of jotter.live (capture-editor's        *)
(* livePreview extension) and the asset resolver of the Jotter editor.     *)
(*                                                                         *)
(* Text is a string; offsets are 0-based as in the source, so Ch(t, i) is  *)
(* t[i] and Slice(t, a, b) is t.slice(a, b).  A TLA+ string cannot hold the *)
(* backtick: the apostrophe stands for it in every text of this module.     *)
(***************************************************************************)
EXTENDS Integers, Sequences, FiniteSets, TLC

\* ------------------------------------------------------------------------
\* Bounds of the model
\* ------------------------------------------------------------------------

\* Largest number of unrelated paragraphs typed above, and below, the
\* fixture text of a document.
MaxPad == 1

\* ------------------------------------------------------------------------
\* Strings
\* ------------------------------------------------------------------------

\* the character written for the backtick of the source texts and patterns
Backtick == "'"

Ch(t, i) == IF i >= 0 /\ i < Len(t) THEN SubSeq(t, i + 1, i + 1) ELSE ""

Slice(t, a, b) == IF a >= b THEN "" ELSE SubSeq(t, a + 1, IF b > Len(t) THEN Len(t) ELSE b)

RECURSIVE IndexOfFrom(_, _, _)
\* t.indexOf(c, i) for a one-character c
IndexOfFrom(t, c, i) ==
    IF i >= Len(t) THEN -1
    ELSE IF Ch(t, i) = c THEN i
    ELSE IndexOfFrom(t, c, i + 1)

RECURSIVE IndexOfStr(_, _, _)
\* t.indexOf(s, i) for a non-empty s
IndexOfStr(t, s, i) ==
    IF i + Len(s) > Len(t) THEN -1
    ELSE IF Slice(t, i, i + Len(s)) = s THEN i
    ELSE IndexOfStr(t, s, i + 1)

StartsWith(t, s) == Slice(t, 0, Len(s)) = s

EndsWith(t, s) == Len(t) >= Len(s) /\ Slice(t, Len(t) - Len(s), Len(t)) = s

RECURSIVE CountChar(_, _, _)
\* (t.match(/c/g) || []).length
CountChar(t, c, i) ==
    IF i >= Len(t) THEN 0
    ELSE (IF Ch(t, i) = c THEN 1 ELSE 0) + CountChar(t, c, i + 1)

\* Character classes of the regular expressions
LowerChars == {"a", "b", "c", "d", "e", "f", "g", "h", "i", "j", "k", "l", "m",
               "n", "o", "p", "q", "r", "s", "t", "u", "v", "w", "x", "y", "z"}
UpperChars == {"A", "B", "C", "D", "E", "F", "G", "H", "I", "J", "K", "L", "M",
               "N", "O", "P", "Q", "R", "S", "T", "U", "V", "W", "X", "Y", "Z"}
DigitChars == {"0", "1", "2", "3", "4", "5", "6", "7", "8", "9"}
WordChars == LowerChars \cup UpperChars \cup DigitChars \cup {"_"}
SpaceChars == {" ", "\t", "\n", "\r"}
TagChars == WordChars \cup {"/", "-"}
EmojiCodeChars == LowerChars \cup DigitChars \cup {"_", "+", "-"}
UrlStopChars == SpaceChars \cup {"<", ">", "\""}
TrailingPunct == {".", ",", ";", ":", "!", "?"}

RECURSIVE RunEnd(_, _, _)
\* end of the longest run of characters of class cls starting at i
RunEnd(cls, t, i) ==
    IF i < Len(t) /\ Ch(t, i) \in cls THEN RunEnd(cls, t, i + 1) ELSE i

RECURSIVE RunEndNot(_, _, _)
\* end of the longest run of characters outside class cls starting at i
RunEndNot(cls, t, i) ==
    IF i < Len(t) /\ Ch(t, i) \notin cls THEN RunEndNot(cls, t, i + 1) ELSE i

RECURSIVE StripTrailing(_, _)
\* t.replace(/[cls]+$/, "")
StripTrailing(cls, t) ==
    IF Len(t) > 0 /\ Ch(t, Len(t) - 1) \in cls
    THEN StripTrailing(cls, Slice(t, 0, Len(t) - 1))
    ELSE t

\* ------------------------------------------------------------------------
\* Text buffer: doc.lines, doc.line(n), doc.lineAt(pos)
\* ------------------------------------------------------------------------

RECURSIVE DocLinesFrom(_, _)
DocLinesFrom(t, from) ==
    LET nl == IndexOfFrom(t, "\n", from)
    IN  IF nl = -1
        THEN << [from |-> from, to |-> Len(t)] >>
        ELSE << [from |-> from, to |-> nl] >> \o DocLinesFrom(t, nl + 1)

\* the lines of a document, each with the offsets of its start and end
DocLines(t) == DocLinesFrom(t, 0)

\* doc.lineAt(pos).number, 1-based
LineAt(lines, pos) ==
    CHOOSE n \in 1..Len(lines) : lines[n].from <= pos /\ pos <= lines[n].to

LineText(t, lines, n) == Slice(t, lines[n].from, lines[n].to)

\* ------------------------------------------------------------------------
\* The regular expressions of the scanner.  A match is
\* [index, end, g1, g1e]: match.index, the end of match[0], and the range
\* of match[1]; NoMatch when the expression does not match at that index.
\* ------------------------------------------------------------------------

NoMatch == [index |-> -1, end |-> -1, g1 |-> -1, g1e |-> -1]

Match(index, end, g1, g1e) == [index |-> index, end |-> end, g1 |-> g1, g1e |-> g1e]

\* /(?:^|[^#\w])#([\w\/-]+)/ anchored at index m
HashtagAt(t, m) ==
    LET hash == IF m = 0 /\ Ch(t, 0) = "#" THEN 0
                ELSE IF m < Len(t) /\ Ch(t, m) \notin (WordChars \cup {"#"}) /\ Ch(t, m + 1) = "#"
                     THEN m + 1
                     ELSE -1
        run == RunEnd(TagChars, t, hash + 1)
    IN  IF hash >= 0 /\ run > hash + 1 THEN Match(m, run, hash + 1, run) ELSE NoMatch

\* /==((?!=).+?)==/ anchored at index m
HighlightAt(t, m) ==
    LET close == IndexOfStr(t, "==", m + 3)
    IN  IF Slice(t, m, m + 2) = "==" /\ m + 2 < Len(t) /\ Ch(t, m + 2) # "=" /\ close >= 0
        THEN Match(m, close + 2, m + 2, close)
        ELSE NoMatch

\* /\^([^\^\s][^\^]*?)\^/ anchored at index m
SuperscriptAt(t, m) ==
    LET close == IndexOfFrom(t, "^", m + 2)
    IN  IF Ch(t, m) = "^" /\ m + 1 < Len(t) /\ Ch(t, m + 1) \notin (SpaceChars \cup {"^"}) /\ close >= 0
        THEN Match(m, close + 1, m + 1, close)
        ELSE NoMatch

\* /(?<!~)~(?!~)([^~\s][^~]*?)~(?!~)/ anchored at index m
SubscriptAt(t, m) ==
    LET close == IndexOfFrom(t, "~", m + 2)
    IN  IF /\ Ch(t, m) = "~"
           /\ Ch(t, m - 1) # "~"
           /\ m + 1 < Len(t)
           /\ Ch(t, m + 1) \notin (SpaceChars \cup {"~"})
           /\ close >= 0
           /\ Ch(t, close + 1) # "~"
        THEN Match(m, close + 1, m + 1, close)
        ELSE NoMatch

\* /:([a-z0-9_+-]+):/ anchored at index m
EmojiAt(t, m) ==
    LET run == RunEnd(EmojiCodeChars, t, m + 1)
    IN  IF Ch(t, m) = ":" /\ run > m + 1 /\ Ch(t, run) = ":"
        THEN Match(m, run + 1, m + 1, run)
        ELSE NoMatch

\* /\[\^([^\]]+)\](?!:)/ anchored at index m
FootnoteRefAt(t, m) ==
    LET close == IndexOfFrom(t, "]", m + 2)
    IN  IF Slice(t, m, m + 2) = "[^" /\ close > m + 2 /\ Ch(t, close + 1) # ":"
        THEN Match(m, close + 1, m + 2, close)
        ELSE NoMatch

\* /https?:\/\/[^\s<>"]+/ anchored at index m
UrlAt(t, m) ==
    LET scheme == IF Ch(t, m + 4) = "s" THEN m + 5 ELSE m + 4
        run == RunEndNot(UrlStopChars, t, scheme + 3)
    IN  IF Slice(t, m, m + 4) = "http" /\ Slice(t, scheme, scheme + 3) = "://" /\ run > scheme + 3
        THEN Match(m, run, -1, -1)
        ELSE NoMatch

\* the text between the label and the file name of a jotter-file link
FileLinkInfix == "](jotter-file://"

\* /\[([^\]]*)\]\(jotter-file:\/\/([^)]+)\)/ anchored at index m; the file
\* name, match[2], runs from g1e + Len(FileLinkInfix) to end - 1
JotterLinkAt(t, m) ==
    LET close == IndexOfFrom(t, "]", m + 1)
        name == close + Len(FileLinkInfix)
        stop == IndexOfFrom(t, ")", name)
    IN  IF Ch(t, m) = "[" /\ close >= 0 /\ Slice(t, close, name) = FileLinkInfix /\ stop > name
        THEN Match(m, stop + 1, m + 1, close)
        ELSE NoMatch

\* IMAGE_LINK_RE anchored at index m
ImageLinkAt(t, m) ==
    LET image(link) == IF link.end >= 0 THEN Match(m, link.end, link.g1, link.g1e) ELSE NoMatch
    IN  IF Ch(t, m) = "!" THEN image(JotterLinkAt(t, m + 1)) ELSE NoMatch

\* FILE_LINK_RE anchored at index m
FileLinkAt(t, m) == IF Ch(t, m - 1) # "!" THEN JotterLinkAt(t, m) ELSE NoMatch

RegexAt(re, t, m) ==
    CASE re = "hashtag" -> HashtagAt(t, m)
      [] re = "highlight" -> HighlightAt(t, m)
      [] re = "sup" -> SuperscriptAt(t, m)
      [] re = "sub" -> SubscriptAt(t, m)
      [] re = "emoji" -> EmojiAt(t, m)
      [] re = "footnoteRef" -> FootnoteRefAt(t, m)
      [] re = "url" -> UrlAt(t, m)
      [] re = "imageLink" -> ImageLinkAt(t, m)
      [] re = "fileLink" -> FileLinkAt(t, m)

RECURSIVE ExecFrom(_, _, _)
\* the matches found by while ((match = re.exec(t)) !== null) for a
\* global expression, from lastIndex = i
ExecFrom(re, t, i) ==
    IF i >= Len(t) THEN << >>
    ELSE LET next(m) ==
                 IF m.end >= 0
                 THEN << m >> \o ExecFrom(re, t, m.end)
                 ELSE ExecFrom(re, t, i + 1)
         IN  next(RegexAt(re, t, i))

ExecAll(re, t) == ExecFrom(re, t, 0)

\* lineText.match(/^\[\^([^\]]+)\]:\s/): the footnote definition prefix
FootnoteDefMatch(t) ==
    LET close == IndexOfFrom(t, "]", 2)
    IN  IF Slice(t, 0, 2) = "[^" /\ close > 2 /\ Ch(t, close + 1) = ":" /\ Ch(t, close + 2) \in SpaceChars
        THEN Match(0, close + 3, 2, close)
        ELSE NoMatch

\* /^\s{2,}\S/.test(t)
IsIndentedText(t) ==
    LET run == RunEnd(SpaceChars, t, 0)
    IN  run >= 2 /\ run < Len(t)

\* /^:\s+/.test(t)
IsDefListPrefix(t) == Ch(t, 0) = ":" /\ Ch(t, 1) \in SpaceChars

\* lineText.match(/^:\s+(.+)/)
DefListMatch(t) == IsDefListPrefix(t) /\ Len(t) >= 3

\* t.trim().length > 0
HasNonSpace(t) == RunEnd(SpaceChars, t, 0) < Len(t)

\* ------------------------------------------------------------------------
\* Decorations.  A decoration value is [type, cls, w, a, b, n]: type is
\* "mark", "line", "replace" or "widget" (Decoration.mark / line / replace /
\* widget), cls the class of a mark or line decoration, and w, a, b, n the
\* widget's class and constructor arguments.  Range(d, from, to) is
\* d.range(from, to).
\* ------------------------------------------------------------------------

NoWidget == [w |-> "", a |-> "", b |-> "", n |-> 0]

MarkDeco(cls) == [type |-> "mark", cls |-> cls, w |-> "", a |-> "", b |-> "", n |-> 0]

LineDeco(cls) == [type |-> "line", cls |-> cls, w |-> "", a |-> "", b |-> "", n |-> 0]

ReplaceDeco(widget) ==
    [type |-> "replace", cls |-> "", w |-> widget.w, a |-> widget.a, b |-> widget.b, n |-> widget.n]

WidgetDeco(widget) ==
    [type |-> "widget", cls |-> "", w |-> widget.w, a |-> widget.a, b |-> widget.b, n |-> widget.n]

Range(d, from, to) ==
    [from |-> from, to |-> to, type |-> d.type, cls |-> d.cls,
     w |-> d.w, a |-> d.a, b |-> d.b, n |-> d.n]

hiddenClass == MarkDeco("cm-formatting-hidden")
boldClass == MarkDeco("cm-bold")
italicClass == MarkDeco("cm-italic")
strikeClass == MarkDeco("cm-strikethrough")
codeClass == MarkDeco("cm-code")
hashtagClass == MarkDeco("cm-hashtag")
urlChipClass == MarkDeco("cm-url-chip")
highlightClass == MarkDeco("cm-highlight")
superscriptClass == MarkDeco("cm-superscript")
subscriptClass == MarkDeco("cm-subscript")
linkTextClass == MarkDeco("cm-link-text")
fencedCodeLineClass == LineDeco("cm-fenced-code-line")
checkedTaskLineClass == LineDeco("cm-checked-task-line")

BoolStr(b) == IF b THEN "true" ELSE "false"

CheckboxWidget(checked, pos) == [w |-> "CheckboxWidget", a |-> BoolStr(checked), b |-> "", n |-> pos]
HorizontalRuleWidget == [w |-> "HorizontalRuleWidget", a |-> "", b |-> "", n |-> 0]
CodeBlockHeaderWidget(lang, code) == [w |-> "CodeBlockHeaderWidget", a |-> lang, b |-> code, n |-> 0]
FootnoteRefWidget(id, index) == [w |-> "FootnoteRefWidget", a |-> id, b |-> "", n |-> index]
EmojiWidget(emoji) == [w |-> "EmojiWidget", a |-> emoji, b |-> "", n |-> 0]
BulletWidget(char) == [w |-> "BulletWidget", a |-> char, b |-> "", n |-> 0]
LinkWidget(text, url) == [w |-> "LinkWidget", a |-> text, b |-> url, n |-> 0]
ImageWidget(alt, url) == [w |-> "ImageWidget", a |-> alt, b |-> url, n |-> 0]
URLChipWidget(url, domain) == [w |-> "URLChipWidget", a |-> url, b |-> domain, n |-> 0]
InlineMathWidget(tex) == [w |-> "InlineMathWidget", a |-> tex, b |-> "", n |-> 0]
BlockMathWidget(tex) == [w |-> "BlockMathWidget", a |-> tex, b |-> "", n |-> 0]
MermaidWidget(code) == [w |-> "MermaidWidget", a |-> code, b |-> "", n |-> 0]
InlineImageWidget(filename, altText) == [w |-> "InlineImageWidget", a |-> filename, b |-> altText, n |-> 0]
FileChipWidget(filename, linkText) == [w |-> "FileChipWidget", a |-> filename, b |-> linkText, n |-> 0]

\* other.constructor == this.constructor && this.eq(other), with the eq
\* method of each widget class
WidgetEq(x, y) ==
    /\ x.w = y.w
    /\ CASE x.w = "CheckboxWidget" -> x.a = y.a /\ x.n = y.n
         [] x.w = "HorizontalRuleWidget" -> TRUE
         [] x.w = "TableWidget" -> x.a = y.a
         [] x.w = "CodeBlockHeaderWidget" -> x.a = y.a /\ x.b = y.b
         [] x.w = "InlineMathWidget" -> x.a = y.a
         [] x.w = "BlockMathWidget" -> x.a = y.a
         [] x.w = "MermaidWidget" -> x.a = y.a
         [] x.w = "FootnoteRefWidget" -> x.a = y.a /\ x.n = y.n
         [] x.w = "EmojiWidget" -> x.a = y.a
         [] x.w = "BulletWidget" -> x.a = y.a
         [] x.w = "LinkWidget" -> x.a = y.a /\ x.b = y.b
         [] x.w = "ImageWidget" -> x.a = y.a /\ x.b = y.b
         [] x.w = "URLChipWidget" -> x.a = y.a
         [] x.w = "InlineImageWidget" -> x.a = y.a
         [] x.w = "FileChipWidget" -> x.a = y.a

\* The shortcodes of emojiMap that the fixtures use, each glyph written by
\* its name; any other code is absent from the table (emojiMap[code] is
\* undefined, here "").
emojiMap(code) ==
    CASE code = "v" -> "victory"
      [] code = "x" -> "cross"
      [] code = "100" -> "hundred"
      [] OTHER -> ""

\* new URL(url).hostname.replace(/^www\./, "") for the plain
\* scheme://host[:port][/path] addresses of the fixtures
extractDomain(url) ==
    LET start == IndexOfStr(url, "://", 0) + 3
        stop == RunEndNot({"/", "?", "#", ":"}, url, start)
        host == Slice(url, start, stop)
    IN  IF StartsWith(host, "www.") THEN Slice(host, 4, Len(host)) ELSE host

RECURSIVE Flatten(_)
\* the concatenation of a sequence of sequences
Flatten(ss) == IF ss = << >> THEN << >> ELSE Head(ss) \o Flatten(Tail(ss))

\* ------------------------------------------------------------------------
\* The editor view.  A view is [text, nodes, head, readOnly, vpFrom, vpTo]:
\* the buffer, the syntax tree the host parsed from it (nodes in document
\* order, each [name, from, to, parent] with parent an index into nodes or
\* 0), selection.main.head, the read-only facet and the one visible range.
\* ------------------------------------------------------------------------

getLineAt(lines, pos) == LineAt(lines, pos)

\* cursorOnLine comparing the cursor's line with the first line of the range
\* only
cursorOnLineFirstLineOnly(view, lines, from, to) ==
    IF view.readOnly THEN FALSE
    ELSE getLineAt(lines, view.head) = getLineAt(lines, from)

\* cursorOnLine without the read-only test
cursorOnLineWhenReadOnly(view, lines, from, to) ==
    LET cursorLine == getLineAt(lines, view.head)
        fromLine == getLineAt(lines, from)
        toLine == getLineAt(lines, to)
    IN  cursorLine >= fromLine /\ cursorLine <= toLine

\* Check if cursor is on the same line (always false in read-only mode)
cursorOnLine(view, lines, from, to) ==
    IF view.readOnly THEN FALSE
    ELSE LET cursorLine == getLineAt(lines, view.head)
             fromLine == getLineAt(lines, from)
             toLine == getLineAt(lines, to)
         IN  cursorLine >= fromLine /\ cursorLine <= toLine

\* the nodes syntaxTree(state).iterate({from, to, enter}) enters, in order
VisibleNodes(view) ==
    SelectSeq([k \in 1..Len(view.nodes) |-> k],
              LAMBDA k : view.nodes[k].from <= view.vpTo /\ view.nodes[k].to >= view.vpFrom)

\* the code ranges collected from the visible part of the tree
CodeRanges(view) ==
    { k \in 1..Len(view.nodes) :
        /\ view.nodes[k].from <= view.vpTo /\ view.nodes[k].to >= view.vpFrom
        /\ view.nodes[k].name \in {"FencedCode", "InlineCode", "CodeText"} }

isInCode(view, codeRanges, pos) ==
    \E k \in codeRanges : pos >= view.nodes[k].from /\ pos < view.nodes[k].to

\* ------------------------------------------------------------------------
\* Span Scanner: the per-line passes of buildDecorations.  ln is the line
\* being scanned, [text, from, to, cursor], cursor being cursorOnThisLine.
\* ------------------------------------------------------------------------

\* Hashtags: #tag, #tag-name, or #tag/subtag (skip inside code)
HashtagPass(view, codeRanges, ln) ==
    LET one(m) ==
            LET hashIndex == IndexOfFrom(ln.text, "#", m.index)
                from == ln.from + hashIndex
                to == from + 1 + (m.g1e - m.g1)
            IN  IF ~isInCode(view, codeRanges, from)
                THEN << Range(hashtagClass, from, to) >>
                ELSE << >>
        each(ms) == Flatten([k \in 1..Len(ms) |-> one(ms[k])])
    IN  each(ExecAll("hashtag", ln.text))

\* Highlight ==text==, superscript ^text^ and subscript ~text~: the
\* markers, width characters at each end, are hidden off the cursor line and
\* the inner text is marked (skip inside code)
SymmetricPass(view, codeRanges, ln, re, width, cls) ==
    LET one(m) ==
            LET from == ln.from + m.index
                to == ln.from + m.end
            IN  IF ~isInCode(view, codeRanges, from)
                THEN (IF ~ln.cursor
                      THEN << Range(hiddenClass, from, from + width),
                              Range(hiddenClass, to - width, to) >>
                      ELSE << >>)
                     \o << Range(cls, from + width, to - width) >>
                ELSE << >>
        each(ms) == Flatten([k \in 1..Len(ms) |-> one(ms[k])])
    IN  each(ExecAll(re, ln.text))

\* Emoji shortcodes: :smile: -> glyph (skip inside code)
EmojiPass(view, codeRanges, ln) ==
    LET one(m) ==
            LET code == Slice(ln.text, m.g1, m.g1e)
                emoji == emojiMap(code)
                from == ln.from + m.index
                to == ln.from + m.end
            IN  IF emoji # "" /\ ~isInCode(view, codeRanges, ln.from + m.index) /\ ~ln.cursor
                THEN << Range(ReplaceDeco(EmojiWidget(emoji)), from, to) >>
                ELSE << >>
        each(ms) == Flatten([k \in 1..Len(ms) |-> one(ms[k])])
    IN  each(ExecAll("emoji", ln.text))

\* footnoteIndexMap is the sequence of the ids in insertion order: the
\* index of an id is its position.
FootnoteIndex(footnoteIndexMap, fnId) ==
    CHOOSE k \in 1..Len(footnoteIndexMap) : footnoteIndexMap[k] = fnId

FootnoteHas(footnoteIndexMap, fnId) ==
    \E k \in 1..Len(footnoteIndexMap) : footnoteIndexMap[k] = fnId

\* if (!footnoteIndexMap.has(fnId)) footnoteIndexMap.set(fnId, footnoteIndexMap.size + 1)
FootnoteAssign(footnoteIndexMap, fnId) ==
    IF FootnoteHas(footnoteIndexMap, fnId) THEN footnoteIndexMap
    ELSE Append(footnoteIndexMap, fnId)

RECURSIVE FootnoteRefLoop(_, _, _, _, _, _)
\* Footnote references: [^id] (but NOT definitions [^id]:).  The result is
\* [decos, map]: the decorations pushed and the footnoteIndexMap after them.
FootnoteRefLoop(view, codeRanges, ln, ms, k, acc) ==
    IF k > Len(ms) THEN acc
    ELSE LET from == ln.from + ms[k].index
             to == ln.from + ms[k].end
             fnId == Slice(ln.text, ms[k].g1, ms[k].g1e)
             map == FootnoteAssign(acc.map, fnId)
         IN  IF ~isInCode(view, codeRanges, from) /\ ~ln.cursor
             THEN FootnoteRefLoop(view, codeRanges, ln, ms, k + 1,
                      [decos |-> Append(acc.decos,
                                        Range(ReplaceDeco(FootnoteRefWidget(fnId, FootnoteIndex(map, fnId))), from, to)),
                       map |-> map])
             ELSE FootnoteRefLoop(view, codeRanges, ln, ms, k + 1, acc)

FootnoteRefPass(view, codeRanges, ln, footnoteIndexMap) ==
    FootnoteRefLoop(view, codeRanges, ln, ExecAll("footnoteRef", ln.text), 1,
                    [decos |-> << >>, map |-> footnoteIndexMap])

\* Footnote definitions: [^id]: text -- style the line, and off the cursor
\* line hide the prefix and add the label widget.  Result as above.
FootnoteDefPass(view, codeRanges, ln, footnoteIndexMap) ==
    LET fnDefMatch == FootnoteDefMatch(ln.text)
        prefixLen == fnDefMatch.end
        fnId == Slice(ln.text, fnDefMatch.g1, fnDefMatch.g1e)
        map == FootnoteAssign(footnoteIndexMap, fnId)
    IN  IF fnDefMatch.end >= 0 /\ ~isInCode(view, codeRanges, ln.from)
        THEN IF ~ln.cursor
             THEN [decos |-> << Range(LineDeco("cm-footnote-def"), ln.from, ln.from),
                                Range(hiddenClass, ln.from, ln.from + prefixLen),
                                Range(WidgetDeco(FootnoteRefWidget(fnId, FootnoteIndex(map, fnId))),
                                      ln.from + prefixLen, ln.from + prefixLen) >>,
                   map |-> map]
             ELSE [decos |-> << Range(LineDeco("cm-footnote-def"), ln.from, ln.from) >>,
                   map |-> footnoteIndexMap]
        ELSE [decos |-> << >>, map |-> footnoteIndexMap]

RECURSIVE TracesToFootnoteDef(_, _, _)
\* the backward walk from line j: does it reach a [^id]: line through
\* indented lines only
TracesToFootnoteDef(view, lines, j) ==
    IF j < 1 THEN FALSE
    ELSE LET checkLine == LineText(view.text, lines, j)
         IN  IF FootnoteDefMatch(checkLine).end >= 0 THEN TRUE
             ELSE IF ~IsIndentedText(checkLine) THEN FALSE
             ELSE TracesToFootnoteDef(view, lines, j - 1)

\* Footnote definition continuation: indented lines following a definition
FootnoteContinuationPass(view, lines, i, ln) ==
    IF IsIndentedText(ln.text) /\ i > 1 /\ TracesToFootnoteDef(view, lines, i - 1)
    THEN << Range(LineDeco("cm-footnote-def cm-footnote-def-continuation"), ln.from, ln.from) >>
    ELSE << >>

\* Definition lists: term line followed by : definition
DefListPass(view, lines, codeRanges, i, ln) ==
    IF DefListMatch(ln.text) /\ ~isInCode(view, codeRanges, ln.from) /\ i > 1
    THEN LET prevText == LineText(view.text, lines, i - 1)
             isPrevAlsoDef == IsDefListPrefix(prevText)
         IN  << Range(LineDeco("cm-def-list-def"), ln.from, ln.from) >>
             \o (IF ~ln.cursor THEN << Range(hiddenClass, ln.from, ln.from + 2) >> ELSE << >>)
             \o (IF ~isPrevAlsoDef /\ HasNonSpace(prevText)
                 THEN << Range(LineDeco("cm-def-list-term"), lines[i - 1].from, lines[i - 1].from) >>
                 ELSE << >>)
    ELSE << >>

\* a cleaning that strips the trailing parenthesis of a balanced match too
CleanUrlStrippingBalanced(matched) ==
    LET openParens == CountChar(matched, "(", 0)
        closeParens == CountChar(matched, ")", 0)
        url == IF closeParens >= openParens /\ EndsWith(matched, ")")
               THEN Slice(matched, 0, Len(matched) - 1)
               ELSE matched
    IN  StripTrailing(TrailingPunct, url)

\* Clean trailing punctuation, but preserve balanced parentheses
CleanUrl(matched) ==
    LET openParens == CountChar(matched, "(", 0)
        closeParens == CountChar(matched, ")", 0)
        url == IF closeParens > openParens /\ EndsWith(matched, ")")
               THEN Slice(matched, 0, Len(matched) - 1)
               ELSE matched
    IN  StripTrailing(TrailingPunct, url)

\* URLs: https://... or http://... (skip inside code)
UrlPass(view, codeRanges, ln) ==
    LET one(m) ==
            LET from == ln.from + m.index
                url == CleanUrl(Slice(ln.text, m.index, m.end))
                domain == extractDomain(url)
            IN  IF isInCode(view, codeRanges, ln.from + m.index) THEN << >>
                ELSE IF ~ln.cursor
                THEN << Range(ReplaceDeco(URLChipWidget(url, domain)), from, from + Len(url)) >>
                ELSE << Range(urlChipClass, from, from + Len(url)) >>
        each(ms) == Flatten([k \in 1..Len(ms) |-> one(ms[k])])
    IN  each(ExecAll("url", ln.text))

RECURSIVE ScanLines(_, _, _, _, _)
\* Process each line for custom patterns: the body of
\* for (let i = 1; i <= doc.lines; i++), from line i on with the
\* footnoteIndexMap built so far
ScanLines(view, lines, codeRanges, i, footnoteIndexMap) ==
    IF i > Len(lines) THEN << >>
    ELSE LET ln == [text |-> LineText(view.text, lines, i),
                    from |-> lines[i].from,
                    to |-> lines[i].to,
                    cursor |-> cursorOnLine(view, lines, lines[i].from, lines[i].to)]
             refs == FootnoteRefPass(view, codeRanges, ln, footnoteIndexMap)
             def == FootnoteDefPass(view, codeRanges, ln, refs.map)
         IN  HashtagPass(view, codeRanges, ln)
             \o SymmetricPass(view, codeRanges, ln, "highlight", 2, highlightClass)
             \o SymmetricPass(view, codeRanges, ln, "sup", 1, superscriptClass)
             \o SymmetricPass(view, codeRanges, ln, "sub", 1, subscriptClass)
             \o EmojiPass(view, codeRanges, ln)
             \o refs.decos
             \o def.decos
             \o FootnoteContinuationPass(view, lines, i, ln)
             \o DefListPass(view, lines, codeRanges, i, ln)
             \o UrlPass(view, codeRanges, ln)
             \o ScanLines(view, lines, codeRanges, i + 1, def.map)

\* ------------------------------------------------------------------------
\* Tree Walker: the enter callback of buildDecorations, one node at a time
\* ------------------------------------------------------------------------

Min(a, b) == IF a < b THEN a ELSE b

LowerOf(c) ==
    CASE c = "A" -> "a" [] c = "B" -> "b" [] c = "C" -> "c" [] c = "D" -> "d"
      [] c = "E" -> "e" [] c = "F" -> "f" [] c = "G" -> "g" [] c = "H" -> "h"
      [] c = "I" -> "i" [] c = "J" -> "j" [] c = "K" -> "k" [] c = "L" -> "l"
      [] c = "M" -> "m" [] c = "N" -> "n" [] c = "O" -> "o" [] c = "P" -> "p"
      [] c = "Q" -> "q" [] c = "R" -> "r" [] c = "S" -> "s" [] c = "T" -> "t"
      [] c = "U" -> "u" [] c = "V" -> "v" [] c = "W" -> "w" [] c = "X" -> "x"
      [] c = "Y" -> "y" [] c = "Z" -> "z" [] OTHER -> c

RECURSIVE ToLowerCase(_)
ToLowerCase(t) ==
    IF t = "" THEN "" ELSE LowerOf(Ch(t, 0)) \o ToLowerCase(Slice(t, 1, Len(t)))

\* the children of node k, in order: firstChild and its nextSibling chain
Children(view, k) ==
    SelectSeq([j \in 1..Len(view.nodes) |-> j], LAMBDA j : view.nodes[j].parent = k)

ChildrenNamed(view, k, name) ==
    SelectSeq(Children(view, k), LAMBDA j : view.nodes[j].name = name)

RECURSIVE CountAncestors(_, _, _)
\* the number of nodes with a name in names on the chain k, parent(k), ...
CountAncestors(view, k, names) ==
    IF k = 0 THEN 0
    ELSE (IF view.nodes[k].name \in names THEN 1 ELSE 0)
         + CountAncestors(view, view.nodes[k].parent, names)

\* Bold, italic, strikethrough and inline code: hide the delimiters, width
\* characters at each end, off the cursor's lines and mark the interior
DelimitedNode(node, isOnLine, width, cls) ==
    (IF ~isOnLine
     THEN << Range(hiddenClass, node.from, node.from + width),
             Range(hiddenClass, node.to - width, node.to) >>
     ELSE << >>)
    \o << Range(cls, node.from + width, node.to - width) >>

\* Headings: hide # markers and add spacing
HeadingNode(view, lines, node, isOnLine) ==
    LET text == Slice(view.text, node.from, node.to)
        hashCount == RunEnd({"#"}, text, 0)
        line == lines[LineAt(lines, node.from)]
    IN  IF hashCount > 0
        THEN << Range(LineDeco("cm-heading cm-heading-" \o ToString(Min(hashCount, 6))),
                      line.from, line.from) >>
             \o (IF ~isOnLine
                 THEN << Range(hiddenClass, node.from, node.from + hashCount + 1) >>
                 ELSE << >>)
        ELSE << >>

\* Horizontal rules: --- or *** or ___
HorizontalRuleNode(lines, node, isOnLine) ==
    IF ~isOnLine
    THEN << Range(ReplaceDeco(HorizontalRuleWidget), node.from, node.to) >>
    ELSE << Range(LineDeco("cm-hr-source"), lines[LineAt(lines, node.from)].from,
                  lines[LineAt(lines, node.from)].from) >>

\* Task lists: - [ ] or - [x]
TaskMarkerNode(view, lines, node, isOnLine) ==
    LET text == Slice(view.text, node.from, node.to)
        checked == IndexOfFrom(text, "x", 0) >= 0 \/ IndexOfFrom(text, "X", 0) >= 0
        line == lines[LineAt(lines, node.from)]
    IN  (IF ~isOnLine
         THEN << Range(ReplaceDeco(CheckboxWidget(checked, node.from)), node.from, node.to) >>
         ELSE << >>)
        \o (IF checked THEN << Range(checkedTaskLineClass, line.from, line.from) >> ELSE << >>)

\* the glyphs of bulletChars, written by name
bulletChars == << "bullet", "white-bullet", "small-square", "small-triangle" >>

\* List items: style with bullet/number and nesting indentation
ListItemNode(view, lines, k, isOnLine) ==
    LET node == view.nodes[k]
        parent == node.parent
        depth == CountAncestors(view, parent, {"BulletList", "OrderedList"})
        nestClass == "cm-list-depth-" \o ToString(Min(depth, 4))
        kids == Children(view, k)
        hasTask == \E j \in 1..Len(kids) : view.nodes[kids[j]].name \in {"Task", "TaskMarker"}
        line == lines[LineAt(lines, node.from)]
        markChild == IF kids = << >> THEN 0 ELSE kids[1]
        bulletChar == bulletChars[Min(depth - 1, Len(bulletChars) - 1) + 1]
    IN  IF parent = 0 THEN << >>
        ELSE IF view.nodes[parent].name = "BulletList"
        THEN << Range(LineDeco("cm-bullet-list-line " \o nestClass), line.from, line.from) >>
             \o (IF ~hasTask /\ markChild # 0 /\ view.nodes[markChild].name = "ListMark" /\ ~isOnLine
                 THEN << Range(ReplaceDeco(BulletWidget(bulletChar)),
                               view.nodes[markChild].from, view.nodes[markChild].to + 1) >>
                 ELSE << >>)
        ELSE IF view.nodes[parent].name = "OrderedList"
        THEN << Range(LineDeco("cm-ordered-list-line " \o nestClass), line.from, line.from) >>
        ELSE << >>

\* line.text.match(/^(>+)\s?/): the length of match[0], or -1
QuoteMatchLen(t) ==
    LET run == RunEnd({">"}, t, 0)
    IN  IF run = 0 THEN -1
        ELSE IF Ch(t, run) \in SpaceChars THEN run + 1 ELSE run

\* group 1 (the callout type) of the match of the callout header
\* pattern on a line, or "" when the line does not match
CalloutType(t) ==
    LET run == RunEnd({">"}, t, 0)
        open == RunEnd(SpaceChars, t, run)
        close == RunEnd(WordChars \cup {"-"}, t, open + 2)
    IN  IF run > 0 /\ Slice(t, open, open + 2) = "[!" /\ close > open + 2 /\ Ch(t, close) = "]"
        THEN Slice(t, open + 2, close)
        ELSE ""

RECURSIVE BlockquoteLines(_, _, _, _, _)
\* the loop for (let pos = nodeFrom; pos < nodeTo;) of the blockquote
\* handler, from position pos on
BlockquoteLines(view, lines, nodeTo, depth, pos) ==
    IF pos >= nodeTo THEN << >>
    ELSE LET n == LineAt(lines, pos)
             line == lines[n]
             text == LineText(view.text, lines, n)
             quoteLen == QuoteMatchLen(text)
             calloutType == ToLowerCase(CalloutType(text))
             base == "cm-blockquote cm-blockquote-depth-" \o ToString(Min(depth, 3))
         IN  (IF quoteLen >= 0
              THEN (IF ~cursorOnLine(view, lines, line.from, line.to)
                    THEN << Range(hiddenClass, line.from, line.from + quoteLen) >>
                    ELSE << >>)
                   \o (IF calloutType # ""
                       THEN << Range(LineDeco(base \o " cm-callout cm-callout-" \o calloutType),
                                     line.from, line.from) >>
                       ELSE << Range(LineDeco(base), line.from, line.from) >>)
              ELSE << >>)
             \o BlockquoteLines(view, lines, nodeTo, depth, line.to + 1)

\* Blockquotes: style with nesting depth + callout support
BlockquoteNode(view, lines, k) ==
    BlockquoteLines(view, lines, view.nodes[k].to,
                    CountAncestors(view, k, {"Blockquote"}), view.nodes[k].from)

\* Markdown links: [text](url)
LinkNode(view, k, isOnLine) ==
    LET node == view.nodes[k]
        marks == ChildrenNamed(view, k, "LinkMark")
        urls == ChildrenNamed(view, k, "URL")
    IN  IF Len(marks) >= 4 /\ urls # << >>
        THEN LET m0 == view.nodes[marks[1]]
                 m1 == view.nodes[marks[2]]
                 urlNode == view.nodes[urls[1]]
                 linkText == Slice(view.text, m0.to, m1.from)
                 url == Slice(view.text, urlNode.from, urlNode.to)
                 isCustomProtocol == IndexOfStr(url, "://", 0) >= 0 /\ ~StartsWith(url, "http")
             IN  IF ~isOnLine /\ ~isCustomProtocol
                 THEN << Range(ReplaceDeco(LinkWidget(linkText, url)), node.from, node.to) >>
                 ELSE IF isOnLine
                 THEN << Range(linkTextClass, m0.to, m1.from) >>
                 ELSE << >>
        ELSE << >>

\* Markdown images: ![alt](url)
ImageNode(view, k, isOnLine) ==
    LET node == view.nodes[k]
        marks == ChildrenNamed(view, k, "LinkMark")
        urls == ChildrenNamed(view, k, "URL")
    IN  IF urls # << >>
        THEN LET urlNode == view.nodes[urls[1]]
                 alt == IF Len(marks) >= 2
                        THEN Slice(view.text, view.nodes[marks[1]].to, view.nodes[marks[2]].from)
                        ELSE ""
                 url == Slice(view.text, urlNode.from, urlNode.to)
             IN  IF ~isOnLine /\ StartsWith(url, "http")
                 THEN << Range(ReplaceDeco(ImageWidget(alt, url)), node.from, node.to) >>
                 ELSE << >>
        ELSE << >>

\* the language tag of an opening fence line: group 1 of the match of
\* three or more backticks followed by a run of word characters, or ""
FenceLang(t) ==
    LET ticks == RunEnd({Backtick}, t, 0)
    IN  IF ticks >= 3 THEN Slice(t, ticks, RunEnd(WordChars, t, ticks)) ELSE ""

RECURSIVE LastIndexOf(_, _, _)
\* t.lastIndexOf(c, i)
LastIndexOf(t, c, i) ==
    IF i < 0 THEN -1 ELSE IF Ch(t, i) = c THEN i ELSE LastIndexOf(t, c, i - 1)

\* text.split("\n").slice(1, -1).join("\n")
InnerLines(t) ==
    LET first == IndexOfFrom(t, "\n", 0)
        last == LastIndexOf(t, "\n", Len(t) - 1)
    IN  IF first >= 0 /\ last > first THEN Slice(t, first + 1, last) ELSE ""

\* Fenced code blocks
FencedCodeNode(view, lines, node) ==
    LET text == Slice(view.text, node.from, node.to)
        isReadOnly == view.readOnly
        openingLineNum == LineAt(lines, node.from)
        openingLine == lines[openingLineNum]
        closingLineNum == LineAt(lines, node.to)
        cursorLine == getLineAt(lines, view.head)
        lang == FenceLang(LineText(view.text, lines, openingLineNum))
        code == InnerLines(text)
        openingHidden == isReadOnly \/ cursorLine # openingLineNum
    IN  IF IndexOfFrom(text, "\n", 0) >= 0 /\ ToLowerCase(lang) # "mermaid"
        THEN (IF isReadOnly \/ cursorLine # openingLineNum
              THEN << Range(hiddenClass, node.from, openingLine.to + 1) >>
              ELSE << >>)
             \o (IF isReadOnly \/ cursorLine # closingLineNum
                 THEN << Range(hiddenClass, lines[closingLineNum].from, node.to) >>
                 ELSE << >>)
             \o [j \in 1..(closingLineNum - openingLineNum - 1) |->
                    Range(fencedCodeLineClass, lines[openingLineNum + j].from,
                          lines[openingLineNum + j].from)]
             \o (IF openingHidden /\ openingLineNum + 1 <= closingLineNum - 1
                 THEN << Range(WidgetDeco(CodeBlockHeaderWidget(lang, code)),
                               lines[openingLineNum + 1].from, lines[openingLineNum + 1].from) >>
                 ELSE << >>)
        ELSE << >>

\* the decorations the enter callback pushes for node k
EnterNode(view, lines, k) ==
    LET node == view.nodes[k]
        isOnLine == cursorOnLine(view, lines, node.from, node.to)
    IN  CASE node.name = "StrongEmphasis" -> DelimitedNode(node, isOnLine, 2, boldClass)
          [] node.name = "Emphasis" -> DelimitedNode(node, isOnLine, 1, italicClass)
          [] node.name = "Strikethrough" -> DelimitedNode(node, isOnLine, 2, strikeClass)
          [] node.name = "InlineCode" -> DelimitedNode(node, isOnLine, 1, codeClass)
          [] StartsWith(node.name, "ATXHeading") -> HeadingNode(view, lines, node, isOnLine)
          [] node.name = "HorizontalRule" -> HorizontalRuleNode(lines, node, isOnLine)
          [] node.name = "TaskMarker" -> TaskMarkerNode(view, lines, node, isOnLine)
          [] node.name = "ListItem" -> ListItemNode(view, lines, k, isOnLine)
          [] node.name = "Blockquote" -> BlockquoteNode(view, lines, k)
          [] node.name = "Link" -> LinkNode(view, k, isOnLine)
          [] node.name = "Image" -> ImageNode(view, k, isOnLine)
          [] node.name = "FencedCode" -> FencedCodeNode(view, lines, node)
          [] OTHER -> << >>

\* ------------------------------------------------------------------------
\* Decoration Builder of the inline layer
\* ------------------------------------------------------------------------

RECURSIVE InsertSorted(_, _, _)
\* d placed after every element of the sorted sequence that does not
\* compare greater than it (the sort is stable); byTo tells whether ties on
\* from are broken by to
InsertSorted(sorted, d, byTo) ==
    IF sorted = << >> THEN << d >>
    ELSE LET last == sorted[Len(sorted)]
             greater == last.from > d.from \/ (byTo /\ last.from = d.from /\ last.to > d.to)
         IN  IF greater
             THEN Append(InsertSorted(SubSeq(sorted, 1, Len(sorted) - 1), d, byTo), last)
             ELSE Append(sorted, d)

RECURSIVE SortDecorations(_, _)
\* decorations.sort(compare) with compare (a, b) => a.from - b.from || a.to - b.to
\* when byTo, and (a, b) => a.from - b.from otherwise
SortDecorations(decorations, byTo) ==
    IF decorations = << >> THEN << >>
    ELSE InsertSorted(SortDecorations(SubSeq(decorations, 1, Len(decorations) - 1), byTo),
                      decorations[Len(decorations)], byTo)

\* the decorations pushed by buildDecorations, in the order of the pushes
RawDecorations(view) ==
    LET lines == DocLines(view.text)
        codeRanges == CodeRanges(view)
        visible == VisibleNodes(view)
    IN  ScanLines(view, lines, codeRanges, 1, << >>)
        \o Flatten([j \in 1..Len(visible) |-> EnterNode(view, lines, visible[j])])

\* Build decorations for live preview
buildDecorations(view) == SortDecorations(RawDecorations(view), TRUE)

\* ------------------------------------------------------------------------
\* Block layer: buildTableDecorations.  Its decorations carry one more
\* field, table: the headers, alignments and rows of a TableWidget.
\* ------------------------------------------------------------------------

\* t.trim()
Trim(t) ==
    LET start == RunEnd(SpaceChars, t, 0)
        RECURSIVE EndFrom(_)
        EndFrom(e) == IF e > start /\ Ch(t, e - 1) \in SpaceChars THEN EndFrom(e - 1) ELSE e
    IN  Slice(t, start, EndFrom(Len(t)))

RECURSIVE Split(_, _)
\* t.split(sep) for a one-character sep
Split(t, sep) ==
    LET at == IndexOfFrom(t, sep, 0)
    IN  IF at = -1 THEN << t >>
        ELSE << Slice(t, 0, at) >> \o Split(Slice(t, at + 1, Len(t)), sep)

\* Remove leading/trailing pipes and split
parseCells(line) ==
    LET noLead(trimmed) == IF StartsWith(trimmed, "|") THEN Slice(trimmed, 1, Len(trimmed)) ELSE trimmed
        noTrail(t) == IF EndsWith(t, "|") THEN Slice(t, 0, Len(t) - 1) ELSE t
        trimEach(cells) == [k \in 1..Len(cells) |-> Trim(cells[k])]
    IN  trimEach(Split(noTrail(noLead(Trim(line))), "|"))

\* /^:?-+:?$/.test(c)
IsSeparatorCell(c) ==
    LET start == IF Ch(c, 0) = ":" THEN 1 ELSE 0
        dashes == RunEnd({"-"}, c, start)
        stop == IF Ch(c, dashes) = ":" THEN dashes + 1 ELSE dashes
    IN  dashes > start /\ stop = Len(c)

\* the alignment a separator cell gives its column; "" is null
AlignmentOf(c) ==
    LET t == Trim(c)
    IN  IF StartsWith(t, ":") /\ EndsWith(t, ":") THEN "center"
        ELSE IF EndsWith(t, ":") THEN "right"
        ELSE IF StartsWith(t, ":") THEN "left"
        ELSE ""

NoTable == [ok |-> FALSE, headers |-> << >>, alignments |-> << >>, rows |-> << >>]

\* Parse a markdown table string into headers, alignments, and rows; ok is
\* FALSE for the null result
parseMarkdownTable(text) ==
    LET table(lines, separatorCells) ==
            IF ~(\A k \in 1..Len(separatorCells) : IsSeparatorCell(Trim(separatorCells[k])))
            THEN NoTable
            ELSE [ok |-> TRUE,
                  headers |-> parseCells(lines[1]),
                  alignments |-> [k \in 1..Len(separatorCells) |-> AlignmentOf(separatorCells[k])],
                  rows |-> [k \in 1..(Len(lines) - 2) |-> parseCells(lines[k + 2])]]
        parse(lines) == IF Len(lines) < 2 THEN NoTable ELSE table(lines, parseCells(lines[2]))
    IN  parse(SelectSeq(Split(text, "\n"), LAMBDA l : Trim(l) # ""))

BlockRange(widget, table, from, to) ==
    [from |-> from, to |-> to, type |-> "replace", cls |-> "",
     w |-> widget.w, a |-> widget.a, b |-> widget.b, n |-> widget.n, table |-> table]

TableWidget(raw) == [w |-> "TableWidget", a |-> raw, b |-> "", n |-> 0]

\* Tables: one replace decoration over the node when the cursor is outside
TableNode(state, lines, node) ==
    LET cursorLine == LineAt(lines, state.head)
        tableFirstLine == LineAt(lines, node.from)
        tableLastLine == LineAt(lines, node.to)
        cursorInTable == ~state.readOnly /\ cursorLine >= tableFirstLine /\ cursorLine <= tableLastLine
        raw == Slice(state.text, node.from, node.to)
        replace(parsed) ==
            IF ~cursorInTable /\ parsed.ok
            THEN << BlockRange(TableWidget(raw), parsed, node.from, node.to) >>
            ELSE << >>
    IN  replace(parseMarkdownTable(raw))

\* the language tag of an opening fence when it has at least one character
MermaidLang(t) ==
    LET ticks == RunEnd({Backtick}, t, 0)
        stop == RunEnd(WordChars, t, ticks)
    IN  IF ticks >= 3 /\ stop > ticks THEN Slice(t, ticks, stop) ELSE ""

\* lines.slice(1, lastLineIsFence ? -1 : undefined).join("\n").trim()
MermaidCode(raw) ==
    LET first == IndexOfFrom(raw, "\n", 0)
        last == LastIndexOf(raw, "\n", Len(raw) - 1)
        lastLine == Slice(raw, last + 1, Len(raw))
        stop == IF StartsWith(lastLine, Backtick \o Backtick \o Backtick) THEN last ELSE Len(raw)
    IN  IF first = -1 THEN "" ELSE Trim(Slice(raw, first + 1, stop))

\* Mermaid fenced code blocks
MermaidNode(state, lines, node) ==
    LET firstLine == LineAt(lines, node.from)
        lastLine == LineAt(lines, node.to)
        cursorLine == LineAt(lines, state.head)
        cursorInBlock == ~state.readOnly /\ cursorLine >= firstLine /\ cursorLine <= lastLine
        code == MermaidCode(Slice(state.text, node.from, node.to))
    IN  IF ToLowerCase(MermaidLang(LineText(state.text, lines, firstLine))) = "mermaid"
           /\ ~cursorInBlock /\ code # ""
        THEN << BlockRange(MermaidWidget(code), NoTable, node.from, node.to) >>
        ELSE << >>

RECURSIVE BlockMathMatches(_, _)
\* the matches of the block-math pattern, two dollars, the shortest text
\* (line breaks included) and two dollars, from lastIndex = i
BlockMathMatches(t, i) ==
    LET open == IndexOfStr(t, "$$", i)
        close == IndexOfStr(t, "$$", open + 2)
    IN  IF open = -1 \/ close = -1 THEN << >>
        ELSE << [from |-> open, to |-> close + 2] >> \o BlockMathMatches(t, close + 2)

RECURSIVE InlineMathClose(_, _, _)
\* the first closing dollar at or after p, before index stop: a dollar with
\* no dollar before or after it
InlineMathClose(t, p, stop) ==
    IF p >= stop THEN -1
    ELSE IF Ch(t, p) = "$" /\ Ch(t, p - 1) # "$" /\ Ch(t, p + 1) # "$" THEN p
    ELSE InlineMathClose(t, p + 1, stop)

RECURSIVE InlineMathMatches(_, _)
\* the matches of the inline-math pattern, a single dollar, the shortest
\* non-empty text without a line break and a single dollar, from lastIndex = i
InlineMathMatches(t, i) ==
    IF i >= Len(t) THEN << >>
    ELSE LET nl == IndexOfFrom(t, "\n", i + 1)
             stop == IF nl = -1 THEN Len(t) ELSE nl
             close == InlineMathClose(t, i + 2, stop)
         IN  IF Ch(t, i) = "$" /\ Ch(t, i - 1) # "$" /\ Ch(t, i + 1) # "$" /\ close >= 0
             THEN << [from |-> i, to |-> close + 1] >> \o InlineMathMatches(t, close + 1)
             ELSE InlineMathMatches(t, i + 1)

\* the decorations pushed by buildTableDecorations, in the order of the pushes
RawTableDecorations(state) ==
    LET lines == DocLines(state.text)
        cursorLine == LineAt(lines, state.head)
        blockMathRanges == BlockMathMatches(state.text, 0)
        inlineMatches == InlineMathMatches(state.text, 0)
        treeNode(node) ==
            IF node.name = "Table" THEN TableNode(state, lines, node)
            ELSE IF node.name = "FencedCode" THEN MermaidNode(state, lines, node)
            ELSE << >>
        blockMath(m) ==
            LET firstLine == LineAt(lines, m.from)
                lastLine == LineAt(lines, m.to)
                cursorInBlock == ~state.readOnly /\ cursorLine >= firstLine /\ cursorLine <= lastLine
            IN  IF ~cursorInBlock
                THEN << BlockRange(BlockMathWidget(Trim(Slice(state.text, m.from + 2, m.to - 2))),
                                   NoTable, m.from, m.to) >>
                ELSE << >>
        inlineMath(m) ==
            LET inBlock == \E k \in 1..Len(blockMathRanges) :
                               m.from >= blockMathRanges[k].from /\ m.to <= blockMathRanges[k].to
                onCursorLine == ~state.readOnly /\ LineAt(lines, m.from) = cursorLine
            IN  IF ~inBlock /\ ~onCursorLine
                THEN << BlockRange(InlineMathWidget(Slice(state.text, m.from + 1, m.to - 1)),
                                   NoTable, m.from, m.to) >>
                ELSE << >>
    IN  Flatten([k \in 1..Len(state.nodes) |-> treeNode(state.nodes[k])])
        \o Flatten([k \in 1..Len(blockMathRanges) |-> blockMath(blockMathRanges[k])])
        \o Flatten([k \in 1..Len(inlineMatches) |-> inlineMath(inlineMatches[k])])

\* StateField for table decorations: decorations.sort((a, b) => a.from - b.from);
\* RangeSet.of(decorations, true) then orders by from and startSide, which
\* is the same for every replace decoration, so it keeps this order
buildTableDecorations(state) == SortDecorations(RawTableDecorations(state), FALSE)

\* ------------------------------------------------------------------------
\* File layer: the decorations of the image extension over jotter-file links
\* ------------------------------------------------------------------------

\* /\.(png|jpg|jpeg|gif|webp|svg)$/i.test(filename)
isImageFilename(filename) ==
    \E ext \in {".png", ".jpg", ".jpeg", ".gif", ".webp", ".svg"} : EndsWith(ToLowerCase(filename), ext)

\* the decorations buildFileDecorations pushes for line i: image links,
\* then regular file links
FileLinePass(view, lines, i) ==
    LET text == LineText(view.text, lines, i)
        filename(m) == Slice(text, m.g1e + Len(FileLinkInfix), m.end - 1)
        label(m) == Slice(text, m.g1, m.g1e)
        image(m) ==
            IF isImageFilename(filename(m))
            THEN Range(ReplaceDeco(InlineImageWidget(filename(m), label(m))),
                       lines[i].from + m.index, lines[i].from + m.end)
            ELSE Range(ReplaceDeco(FileChipWidget(filename(m), label(m))),
                       lines[i].from + m.index, lines[i].from + m.end)
        link(m) == Range(ReplaceDeco(FileChipWidget(filename(m), label(m))),
                         lines[i].from + m.index, lines[i].from + m.end)
        images(ms) == [k \in 1..Len(ms) |-> image(ms[k])]
        links(ms) == [k \in 1..Len(ms) |-> link(ms[k])]
    IN  images(ExecAll("imageLink", text)) \o links(ExecAll("fileLink", text))

\* buildFileDecorations: every line but the cursor's
buildFileDecorations(view) ==
    LET lines == DocLines(view.text)
        cursorLine == LineAt(lines, view.head)
    IN  Flatten([i \in 1..Len(lines) |->
                    IF i = cursorLine THEN << >> ELSE FileLinePass(view, lines, i)])

\* ------------------------------------------------------------------------
\* Documents.  The host supplies the buffer together with the syntax tree
\* its markdown parser built from it: each fixture is a text with the nodes
\* of that tree the engine looks at, in document order.
\* ------------------------------------------------------------------------

N(name, from, to, parent) == [name |-> name, from |-> from, to |-> to, parent |-> parent]

Fixtures ==
    <<
    \* 1: plain paragraph
       [text |-> "a b",
        nodes |-> << >>],
    \* 2: emphasis and strong
       [text |-> "*a* **b**",
        nodes |-> << N("Emphasis", 0, 3, 0),
                      N("StrongEmphasis", 4, 9, 0) >>],
    \* 3: strikethrough and inline code
       [text |-> "~~a~~ 'b'",
        nodes |-> << N("Strikethrough", 0, 5, 0),
                      N("InlineCode", 6, 9, 0) >>],
    \* 4: emphasis over two lines
       [text |-> "*a\nb*",
        nodes |-> << N("Emphasis", 0, 5, 0) >>],
    \* 5: hashtag, highlight, superscript, subscript
       [text |-> "#t ==h== ^u^ ~d~",
        nodes |-> << >>],
    \* 6: known and unknown emoji shortcodes
       [text |-> ":v: :q:",
        nodes |-> << >>],
    \* 7: footnote references and a definition
       [text |-> "[^a]\n[^b] [^a]\n[^b]: x",
        nodes |-> << >>],
    \* 8: footnote definition with a continuation line
       [text |-> "[^a]: x\n  y",
        nodes |-> << >>],
    \* 9: definition list
       [text |-> "t\n: d",
        nodes |-> << >>],
    \* 10: bare URLs with parentheses
       [text |-> "http://a/(b) http://c).",
        nodes |-> << >>],
    \* 11: superscript inside a bare URL
       [text |-> "http://a/^u^",
        nodes |-> << >>],
    \* 12: link with emphasised text
       [text |-> "[*a*](http://b)",
        nodes |-> << N("Link", 0, 15, 0),
                      N("LinkMark", 0, 1, 1),
                      N("Emphasis", 1, 4, 1),
                      N("LinkMark", 4, 5, 1),
                      N("LinkMark", 5, 6, 1),
                      N("URL", 6, 14, 1),
                      N("LinkMark", 14, 15, 1) >>],
    \* 13: custom-scheme link and web image
       [text |-> "[a](jotter-file://f) ![i](http://b)",
        nodes |-> << N("Link", 0, 20, 0),
                      N("LinkMark", 0, 1, 1),
                      N("LinkMark", 2, 3, 1),
                      N("LinkMark", 3, 4, 1),
                      N("URL", 4, 19, 1),
                      N("LinkMark", 19, 20, 1),
                      N("Image", 21, 35, 0),
                      N("LinkMark", 21, 23, 7),
                      N("LinkMark", 24, 25, 7),
                      N("LinkMark", 25, 26, 7),
                      N("URL", 26, 34, 7),
                      N("LinkMark", 34, 35, 7) >>],
    \* 14: heading
       [text |-> "## H",
        nodes |-> << N("ATXHeading2", 0, 4, 0),
                      N("HeaderMark", 0, 2, 1) >>],
    \* 15: horizontal rule
       [text |-> "---",
        nodes |-> << N("HorizontalRule", 0, 3, 0) >>],
    \* 16: bullet item and checked task
       [text |-> "- a\n- [x] b",
        nodes |-> << N("BulletList", 0, 11, 0),
                      N("ListItem", 0, 3, 1),
                      N("ListMark", 0, 1, 2),
                      N("ListItem", 4, 11, 1),
                      N("ListMark", 4, 5, 4),
                      N("Task", 6, 11, 4),
                      N("TaskMarker", 6, 9, 6) >>],
    \* 17: empty bullet item before another item
       [text |-> "-\n- b",
        nodes |-> << N("BulletList", 0, 5, 0),
                      N("ListItem", 0, 1, 1),
                      N("ListMark", 0, 1, 2),
                      N("ListItem", 2, 5, 1),
                      N("ListMark", 2, 3, 4) >>],
    \* 18: nested bullet list
       [text |-> "- a\n  - b",
        nodes |-> << N("BulletList", 0, 9, 0),
                      N("ListItem", 0, 9, 1),
                      N("ListMark", 0, 1, 2),
                      N("BulletList", 6, 9, 2),
                      N("ListItem", 6, 9, 4),
                      N("ListMark", 6, 7, 5) >>],
    \* 19: ordered list
       [text |-> "1. a",
        nodes |-> << N("OrderedList", 0, 4, 0),
                      N("ListItem", 0, 4, 1),
                      N("ListMark", 0, 2, 2) >>],
    \* 20: blockquote of two lines
       [text |-> "> q\n> r",
        nodes |-> << N("Blockquote", 0, 7, 0),
                      N("QuoteMark", 0, 1, 1),
                      N("QuoteMark", 4, 5, 1) >>],
    \* 21: callout
       [text |-> "> [!Note] t",
        nodes |-> << N("Blockquote", 0, 11, 0),
                      N("QuoteMark", 0, 1, 1) >>],
    \* 22: fenced code holding a hashtag
       [text |-> "'''js\n#a\n'''",
        nodes |-> << N("FencedCode", 0, 12, 0),
                      N("CodeMark", 0, 3, 1),
                      N("CodeInfo", 3, 5, 1),
                      N("CodeText", 6, 8, 1),
                      N("CodeMark", 9, 12, 1) >>],
    \* 23: highlight closing inside inline code
       [text |-> "'#a' ==b 'c=='",
        nodes |-> << N("InlineCode", 0, 4, 0),
                      N("InlineCode", 9, 14, 0) >>],
    \* 24: table whose first cell is a formula
       [text |-> "$a$|b\n-|-",
        nodes |-> << N("Table", 0, 9, 0) >>],
    \* 25: table with a right-aligned column
       [text |-> "|a|b|\n|-|-:|\n|c|d|",
        nodes |-> << N("Table", 0, 18, 0) >>],
    \* 26: block and inline formula
       [text |-> "$$x$$ $y$",
        nodes |-> << >>],
    \* 27: mermaid diagram
       [text |-> "'''mermaid\ng\n'''",
        nodes |-> << N("FencedCode", 0, 16, 0),
                      N("CodeMark", 0, 3, 1),
                      N("CodeInfo", 3, 10, 1),
                      N("CodeText", 11, 12, 1),
                      N("CodeMark", 13, 16, 1) >>],
    \* 28: link whose text spans two lines
       [text |-> "[a\nb](http://c)",
        nodes |-> << N("Link", 0, 15, 0),
                      N("LinkMark", 0, 1, 1),
                      N("LinkMark", 4, 5, 1),
                      N("LinkMark", 5, 6, 1),
                      N("URL", 6, 14, 1),
                      N("LinkMark", 14, 15, 1) >>],
    \* 29: two links to one stored file, with different texts
       [text |-> "[a](jotter-file://b.pdf) [c](jotter-file://b.pdf)\nx",
        nodes |-> << N("Link", 0, 24, 0),
                      N("LinkMark", 0, 1, 1),
                      N("LinkMark", 2, 3, 1),
                      N("LinkMark", 3, 4, 1),
                      N("URL", 4, 23, 1),
                      N("LinkMark", 23, 24, 1),
                      N("Link", 25, 49, 0),
                      N("LinkMark", 25, 26, 7),
                      N("LinkMark", 27, 28, 7),
                      N("LinkMark", 28, 29, 7),
                      N("URL", 29, 48, 7),
                      N("LinkMark", 48, 49, 7) >>],
    \* 30: table with an escaped pipe in its first header cell
       [text |-> "a\\|b|c\n-|-",
        nodes |-> << N("Table", 0, 10, 0) >>],
    \* 31: table whose separator line has a cell that is no separator
       [text |-> "a|b\n-|x",
        nodes |-> << N("Table", 0, 7, 0) >>],
    \* 32: fenced code left unterminated at the end of the document
       [text |-> "'''js\na\nb",
        nodes |-> << N("FencedCode", 0, 9, 0),
                      N("CodeMark", 0, 3, 1),
                      N("CodeInfo", 3, 5, 1),
                      N("CodeText", 6, 9, 1) >>],
    \* 33: block formula between two single dollars
       [text |-> "$a $$b$$ c$",
        nodes |-> << >>],
    \* 34: unchecked task
       [text |-> "- [ ] a",
        nodes |-> << N("BulletList", 0, 7, 0),
                      N("ListItem", 0, 7, 1),
                      N("ListMark", 0, 1, 2),
                      N("Task", 2, 7, 2),
                      N("TaskMarker", 2, 5, 4) >>],
    \* 35: a stored image and a stored file, both without text, below the
    \* line of the cursor
       [text |-> "x\n![](jotter-file://a.png) [](jotter-file://b.pdf)",
        nodes |-> << N("Image", 2, 26, 0),
                      N("LinkMark", 2, 4, 1),
                      N("LinkMark", 4, 5, 1),
                      N("LinkMark", 5, 6, 1),
                      N("URL", 6, 25, 1),
                      N("LinkMark", 25, 26, 1),
                      N("Link", 27, 50, 0),
                      N("LinkMark", 27, 28, 7),
                      N("LinkMark", 28, 29, 7),
                      N("LinkMark", 29, 30, 7),
                      N("URL", 30, 49, 7),
                      N("LinkMark", 49, 50, 7) >>],
    \* 36: empty heading at the end of the document
       [text |-> "x\n#",
        nodes |-> << N("ATXHeading1", 2, 3, 0),
                      N("HeaderMark", 2, 3, 1) >>],
    \* 37: empty list item at the end of the document
       [text |-> "-",
        nodes |-> << N("BulletList", 0, 1, 0),
                      N("ListItem", 0, 1, 1),
                      N("ListMark", 0, 1, 2) >>],
    \* 38: blockquote nested in a blockquote
       [text |-> "x\n>> a",
        nodes |-> << N("Blockquote", 2, 6, 0),
                      N("QuoteMark", 2, 3, 1),
                      N("Blockquote", 3, 6, 1),
                      N("QuoteMark", 3, 4, 3) >>],
    \* 39: bare URLs ending in a closing parenthesis: one more closing than
    \* opening, and one more opening than closing
       [text |-> "(http://d) http://e/((f)",
        nodes |-> << >>],
    \* 40: a formula written inside inline code, below a paragraph
       [text |-> "x\n'$a$'",
        nodes |-> << N("InlineCode", 2, 7, 0) >>]
    >>

\* An unrelated paragraph, with the blank line that separates it, as typed
\* above and as typed below the fixture text
PadAbove == "x\n\n"
PadBelow == "\n\nx"

ShiftNodes(nodes, by) ==
    [k \in 1..Len(nodes) |->
        N(nodes[k].name, nodes[k].from + by, nodes[k].to + by, nodes[k].parent)]

\* the heads a selection is set to: the start of every line and the end
\* of the document
Heads(text) == { DocLines(text)[n].from : n \in 1..Len(DocLines(text)) } \cup { Len(text) }

\* the visible ranges the host reports: the whole document, its first line
\* only, or its last line only
Viewports(text) ==
    LET lines == DocLines(text)
    IN  { [from |-> 0, to |-> Len(text)],
          [from |-> lines[1].from, to |-> lines[1].to],
          [from |-> lines[Len(lines)].from, to |-> lines[Len(lines)].to] }

MakeView(text, nodes, head, readOnly, vp) ==
    [text |-> text, nodes |-> nodes, head |-> head, readOnly |-> readOnly,
     vpFrom |-> vp.from, vpTo |-> vp.to]

RECURSIVE Repeat(_, _)
Repeat(t, n) == IF n = 0 THEN "" ELSE t \o Repeat(t, n - 1)

\* the buffer and tree of fixture f with the given numbers of paragraphs
\* typed above and below it
DocOf(f, above, below) ==
    [text |-> Repeat(PadAbove, above) \o Fixtures[f].text \o Repeat(PadBelow, below),
     nodes |-> ShiftNodes(Fixtures[f].nodes, above * Len(PadAbove))]

\* every view of the model: a read-only editor is never typed into
AllViews ==
    UNION { LET doc == DocOf(f, pad[1], pad[2])
            IN  { MakeView(doc.text, doc.nodes, head, readOnly, vp) :
                     head \in Heads(doc.text), vp \in Viewports(doc.text),
                     readOnly \in (IF pad = << 0, 0 >> THEN BOOLEAN ELSE {FALSE}) }
            : f \in 1..Len(Fixtures), pad \in (0..MaxPad) \X (0..MaxPad) }

\* The two layers of every view, tabulated: InlineLayer[v] is
\* buildDecorations(v) and BlockLayer[v] is buildTableDecorations(v).  Merging
\* with the empty function makes each table one explicit function.
InlineLayer == [v \in AllViews |-> buildDecorations(v)] @@ << >>

BlockLayer == [v \in AllViews |-> buildTableDecorations(v)] @@ << >>

FileLayer == [v \in AllViews |-> buildFileDecorations(v)] @@ << >>

\* ------------------------------------------------------------------------
\* Layer Scheduler: the view plugin of the inline layer and the state field
\* of the block layer.  An update is [docChanged, selectionSet,
\* viewportChanged]; each handler returns the layer's decorations and
\* whether it rebuilt them.
\* ------------------------------------------------------------------------

VARIABLES editorView, pads, inlineDecorations, tableDecorations, fileDecorations, lastUpdate

\* the calls the last step made to the toggle callback the host supplied
\* through checkboxToggleFacet, each [pos, checked]; a transaction makes none
VARIABLES toggled

\* The FileResolver of the image extension: its cache and pending maps, the
\* store retrievals not yet settled, the object URLs created and revoked so
\* far, whether the owning plugin was destroyed, and the last resolve call
VARIABLES cache, pending, inFlight, created, revoked, destroyed, resolves, lastResolve

\* The editor state the autocomplete sources read and their apply functions
\* change (document and cursor), the completion result that is open, and the
\* option the last step accepted
VARIABLES completionView, completionResult, lastApplied

\* The elements the toDOM calls of the file widgets built: what each shows,
\* the URL and click listener it got, and whether its then callback is still
\* waiting for the resolver's promise
VARIABLES doms

widgetVars == << doms >>

completionVars == << completionView, completionResult, lastApplied >>

\* The image store: which implementation it is, the files it holds (name ->
\* bytes; the directory of the OPFS store also holds _meta.json), and the
\* store calls made so far, each with the point it has reached
VARIABLES storeKind, directory, storeCalls

storeVars == << storeKind, directory, storeCalls >>

\* NotesDB: the notes object store (id -> note), the last timestamp now()
\* handed out, and the value of Date.now()
VARIABLES notes, lastTimestamp, dateNow

notesVars == << notes, lastTimestamp, dateNow >>

\* App: the note being edited, the draft flag, the pending debounced save
\* (its content, or none), the buffer of the editor, the contents in the
\* database, the selectNote call in flight, and for each note the content
\* last typed into it
VARIABLES activeNoteId, isDraft, saveTimeout, editorDoc, savedContent, selectNoteCall, typedInto

sessionVars == << activeNoteId, isDraft, saveTimeout, editorDoc, savedContent, selectNoteCall, typedInto >>

\* The editor state the mention extension reads (document, cursor,
\* read-only flag and the value of contactsFacet) and the value of
\* mentionDecorationField
VARIABLES mentionState, mentionDecorations

mentionVars == << mentionState, mentionDecorations >>

\* Sync: the note files in the Drive folder (id -> modifiedTime and the note
\* uploaded), the number of syncs made, the isSyncing flag of App, and the
\* sync runs started so far, each with the operations of its workers
VARIABLES remoteNotes, syncCount, isSyncing, syncRunList

syncVars == << remoteNotes, syncCount, isSyncing, syncRunList >>

appVars == << notesVars, sessionVars, mentionVars, syncVars >>

hostVars == << completionVars, storeVars, appVars >>

editorVars == << editorView, pads, inlineDecorations, tableDecorations, fileDecorations, lastUpdate, toggled >>

resolverVars == << cache, pending, inFlight, created, revoked, destroyed, resolves, lastResolve >>

vars == << editorVars, resolverVars, hostVars, widgetVars >>

\* livePreviewPlugin.update handing back the set of the previous rebuild
\* when the document did not change
PluginUpdateReusingOld(old, update, newView) ==
    IF update.docChanged \/ update.selectionSet \/ update.viewportChanged
    THEN [decorations |-> IF update.docChanged \/ old = << >> THEN InlineLayer[newView] ELSE old,
          rebuilt |-> TRUE]
    ELSE [decorations |-> old, rebuilt |-> FALSE]

\* livePreviewPlugin.update
PluginUpdate(old, update, newView) ==
    IF update.docChanged \/ update.selectionSet \/ update.viewportChanged
    THEN [decorations |-> InlineLayer[newView], rebuilt |-> TRUE]
    ELSE [decorations |-> old, rebuilt |-> FALSE]

\* tableDecorationField.update rebuilding on a viewport change as well
FieldUpdateOnViewport(old, update, newView) ==
    IF update.docChanged \/ update.selectionSet \/ update.viewportChanged
    THEN [decorations |-> BlockLayer[newView], rebuilt |-> TRUE]
    ELSE [decorations |-> old, rebuilt |-> FALSE]

\* tableDecorationField.update; decorations.map(tr.changes) of a
\* transaction without changes is the old set
FieldUpdate(old, update, newView) ==
    IF update.docChanged \/ update.selectionSet
    THEN [decorations |-> BlockLayer[newView], rebuilt |-> TRUE]
    ELSE [decorations |-> old, rebuilt |-> FALSE]

\* FileDecoPlugin.update
FilePluginUpdate(old, update, newView) ==
    IF update.docChanged \/ update.selectionSet \/ update.viewportChanged
    THEN FileLayer[newView]
    ELSE old

\* view.dispatch of one transaction leading to newView
Dispatch(newView, docChanged, selectionSet) ==
    LET update == [docChanged |-> docChanged,
                   selectionSet |-> selectionSet,
                   viewportChanged |-> newView.vpFrom # editorView.vpFrom \/ newView.vpTo # editorView.vpTo]
        apply(plugin, field, files) ==
            /\ editorView' = newView
            /\ inlineDecorations' = plugin.decorations
            /\ tableDecorations' = field.decorations
            /\ fileDecorations' = files
            /\ lastUpdate' = [docChanged |-> update.docChanged,
                              selectionSet |-> update.selectionSet,
                              viewportChanged |-> update.viewportChanged,
                              inlineRebuilt |-> plugin.rebuilt,
                              blockRebuilt |-> field.rebuilt]
            /\ toggled' = << >>
            /\ UNCHANGED << resolverVars, hostVars, widgetVars >>
    IN  apply(PluginUpdate(inlineDecorations, update, newView),
              FieldUpdate(tableDecorations, update, newView),
              FilePluginUpdate(fileDecorations, update, newView))

\* the names the documents refer to with jotter-file:// links
FileNames == {"a.png", "b.pdf"}

\* new FileResolver(store): both maps empty, nothing retrieved yet
ResolverInit ==
    /\ cache = [filename \in FileNames |-> 0]
    /\ pending = {}
    /\ inFlight = [filename \in FileNames |-> 0]
    /\ created = 0
    /\ revoked = {}
    /\ destroyed = FALSE
    /\ resolves = 0
    /\ lastResolve = [filename |-> "", wasInFlight |-> FALSE, returned |-> "none"]
    /\ doms = {}

\* new EditorView over fixture f: the plugin's constructor and the field's
\* create
EditorInit(f, readOnly) ==
    /\ editorView = MakeView(Fixtures[f].text, Fixtures[f].nodes, 0, readOnly,
                             [from |-> 0, to |-> Len(Fixtures[f].text)])
    /\ pads = [above |-> 0, below |-> 0]
    /\ inlineDecorations = InlineLayer[editorView]
    /\ tableDecorations = BlockLayer[editorView]
    /\ fileDecorations = FileLayer[editorView]
    /\ toggled = << >>
    /\ lastUpdate = [docChanged |-> FALSE, selectionSet |-> FALSE, viewportChanged |-> FALSE,
                     inlineRebuilt |-> TRUE, blockRebuilt |-> TRUE]

\* content.split("\n")[0]?.trim() || "Untitled"
deriveTitle(content) ==
    LET orUntitled(firstLine) == IF firstLine = "" THEN "Untitled" ELSE firstLine
    IN  orUntitled(Trim(Split(content, "\n")[1]))

\* the most notes created, and the latest timestamp (Date.now() and now())
MaxNotes == 3

MaxTime == 4

\* the contents given to create and update
NoteContents == {"", "a\nb"}

\* NotesDB.now(): Date.now() when that is later than the last timestamp,
\* else the last timestamp plus one
NextTimestamp == IF dateNow > lastTimestamp THEN dateNow ELSE lastTimestamp + 1

\* a new database, opened: no note; deletedAt null is written 0
NotesInit ==
    /\ notes = [id \in {} |-> 0]
    /\ lastTimestamp = 0
    /\ dateNow = 1

\* the notes a session may hold, the notes found in the database when the
\* application starts, and the contents typed
MaxSessionNotes == 3

SessionNoteIds == 1..MaxSessionNotes

InitialNotes == (1 :> "a") @@ (2 :> "b")

TypedContents == {"x", "b"}

NoSelectNote == [pc |-> "idle", id |-> 0, note |-> << >>]

\* App.init of a returning user: the note list is read and createNewNote
\* opens a draft on an empty editor
SessionInit ==
    /\ activeNoteId = 0
    /\ isDraft = TRUE
    /\ saveTimeout = << >>
    /\ editorDoc = ""
    /\ savedContent = InitialNotes
    /\ selectNoteCall = NoSelectNote
    /\ typedInto = [id \in SessionNoteIds |-> ""]

RECURSIVE MentionMatches(_, _)
\* the matches of mentionRegex /@([a-zA-Z][a-zA-Z0-9]*)/g in t from offset
\* i on, each [index, end]
MentionMatches(t, i) ==
    LET at == IndexOfFrom(t, "@", i)
        end == RunEnd(LowerChars \cup UpperChars \cup DigitChars, t, at + 1)
    IN  IF at < 0 THEN << >>
        ELSE IF Ch(t, at + 1) \in LowerChars \cup UpperChars
        THEN << [index |-> at, end |-> end] >> \o MentionMatches(t, end)
        ELSE MentionMatches(t, at + 1)

\* new Map(contacts.map(c => [c.handle.toLowerCase(), c])).get(key): the
\* last contact with that key, or nothing
ContactMapGet(contacts, key) ==
    LET hits == SelectSeq(contacts, LAMBDA c : ToLowerCase(c.handle) = key)
    IN  IF hits = << >> THEN << >> ELSE << hits[Len(hits)] >>

\* Build decorations for mentions
buildMentionDecorations(state) ==
    LET lines == DocLines(state.doc)
        ofMatch(lineFrom, lineText, m) ==
            LET from == lineFrom + m.index
                to == from + (m.end - m.index)
                handle == Slice(lineText, m.index + 1, m.end)
                cursorInMention == ~state.readOnly /\ state.head >= from /\ state.head <= to
                contact == ContactMapGet(state.contacts, ToLowerCase(handle))
            IN  IF contact # << >> /\ ~cursorInMention
                THEN << [from |-> from, to |-> to,
                         displayName |-> contact[1].displayName, handle |-> handle] >>
                ELSE << >>
        ofMatches(lineFrom, lineText, ms) ==
            LET RECURSIVE each(_)
                each(k) == IF k > Len(ms) THEN << >>
                           ELSE ofMatch(lineFrom, lineText, ms[k]) \o each(k + 1)
            IN  each(1)
        RECURSIVE ofLines(_)
        ofLines(n) ==
            IF n > Len(lines) THEN << >>
            ELSE ofMatches(lines[n].from, LineText(state.doc, lines, n),
                           MentionMatches(LineText(state.doc, lines, n), 0))
                 \o ofLines(n + 1)
    IN  ofLines(1)

\* the documents with mentions, and the contact lists the host supplies
MaxMentionHead == 10

MentionDocs == {"@ax", "@b @Ax\n@ax"}

ContactLists ==
    { << >>,
      << [handle |-> "ax", displayName |-> "Xa"] >>,
      << [handle |-> "b", displayName |-> "Bo"] >>,
      << [handle |-> "ax", displayName |-> "Xa"], [handle |-> "b", displayName |-> "Bo"] >> }

\* createMentionExtension(initialContacts) in a new editor:
\* mentionDecorationField.create
MentionInit(doc, readOnly) ==
    /\ mentionState = [doc |-> doc, head |-> 0, readOnly |-> readOnly, contacts |-> << >>]
    /\ mentionDecorations = buildMentionDecorations(mentionState)

\* an empty Drive folder, no sync made or running
SyncInit ==
    /\ remoteNotes = [id \in {} |-> 0]
    /\ syncCount = 0
    /\ isSyncing = FALSE
    /\ syncRunList = << >>

AppInit == NotesInit /\ SessionInit /\ MentionInit("@ax", FALSE) /\ SyncInit

baseVars == << editorVars, resolverVars, widgetVars, completionVars, storeVars >>

\* time passes
Tick ==
    /\ dateNow < MaxTime
    /\ dateNow' = dateNow + 1
    /\ UNCHANGED << notes, lastTimestamp, baseVars, sessionVars, mentionVars, syncVars >>

\* NotesDB.create(content); id stands for the fresh crypto.randomUUID()
NotesCreate(id, content) ==
    /\ id \notin DOMAIN notes
    /\ NextTimestamp <= MaxTime
    /\ lastTimestamp' = NextTimestamp
    /\ notes' = (id :> [id |-> id, content |-> content, title |-> deriveTitle(content),
                        createdAt |-> NextTimestamp, updatedAt |-> NextTimestamp,
                        deleted |-> FALSE, deletedAt |-> 0]) @@ notes
    /\ UNCHANGED << dateNow, baseVars, sessionVars, mentionVars, syncVars >>

\* NotesDB.update(id, { content })
NotesUpdate(id, content) ==
    /\ id \in DOMAIN notes
    /\ NextTimestamp <= MaxTime
    /\ lastTimestamp' = NextTimestamp
    /\ notes' = [notes EXCEPT ![id] = [@ EXCEPT !.content = content,
                                                !.title = deriveTitle(content),
                                                !.updatedAt = NextTimestamp]]
    /\ UNCHANGED << dateNow, baseVars, sessionVars, mentionVars, syncVars >>

\* NotesDB.softDelete(id)
NotesSoftDelete(id) ==
    /\ id \in DOMAIN notes
    /\ NextTimestamp <= MaxTime
    /\ lastTimestamp' = NextTimestamp
    /\ notes' = [notes EXCEPT ![id] = [@ EXCEPT !.deleted = TRUE, !.deletedAt = NextTimestamp]]
    /\ UNCHANGED << dateNow, baseVars, sessionVars, mentionVars, syncVars >>

\* NotesDB.restore(id)
NotesRestore(id) ==
    /\ id \in DOMAIN notes
    /\ notes' = [notes EXCEPT ![id] = [@ EXCEPT !.deleted = FALSE, !.deletedAt = 0]]
    /\ UNCHANGED << lastTimestamp, dateNow, baseVars, sessionVars, mentionVars, syncVars >>

RECURSIVE SortedDesc(_, _, _)
\* the ids of set ids as all.sort((a, b) => b[key] - a[key]) leaves them;
\* the keys of different notes differ
SortedDesc(all, ids, key) ==
    IF ids = {} THEN << >>
    ELSE LET first == CHOOSE id \in ids : \A other \in ids : all[other][key] <= all[id][key]
         IN  << first >> \o SortedDesc(all, ids \ {first}, key)

\* NotesDB.listActive over the notes of the store, as their ids
listActive(all) ==
    SortedDesc(all, { id \in DOMAIN all : ~all[id].deleted }, "createdAt")

RECURSIVE Without(_, _)
\* t.replace(/[cls]/g, "")
Without(cls, t) ==
    IF t = "" THEN "" ELSE (IF Ch(t, 0) \in cls THEN "" ELSE Ch(t, 0)) \o Without(cls, Slice(t, 1, Len(t)))

\* name.replace(/[<>:"/\\|?*\x00-\x1f]/g, "").trim() || "file"
sanitizeName(name) ==
    LET orFile(t) == IF t = "" THEN "file" ELSE t
    IN  orFile(Trim(Without({"<", ">", ":", "\"", "/", "\\", "|", "?", "*", "\t", "\n", "\r"}, name)))

\* the extension of a MIME type: the table entry, else the subtype reduced
\* to lower-case letters and digits, else bin
extFromMime(mime) ==
    LET subtype(parts) ==
            IF Len(parts) >= 2
            THEN Without({Ch(parts[2], i) : i \in 0..(Len(parts[2]) - 1)} \ (LowerChars \cup DigitChars),
                         parts[2])
            ELSE ""
        orBin(t) == IF t = "" THEN "bin" ELSE t
    IN  CASE mime = "image/png" -> "png"
          [] mime = "image/jpeg" -> "jpg"
          [] mime = "image/svg+xml" -> "svg"
          [] mime = "text/plain" -> "txt"
          [] OTHER -> orBin(subtype(Split(mime, "/")))

\* base and extension of the name a blob is stored under
deriveBasename(blob) ==
    LET RECURSIVE LastDot(_, _)
        LastDot(t, i) == IF i < 0 THEN -1 ELSE IF Ch(t, i) = "." THEN i ELSE LastDot(t, i - 1)
        named(sanitized, dotIdx) ==
            IF dotIdx > 0
            THEN [base |-> Slice(sanitized, 0, dotIdx), ext |-> Slice(sanitized, dotIdx + 1, Len(sanitized))]
            ELSE [base |-> sanitized, ext |-> extFromMime(blob.type)]
        of(sanitized) == named(sanitized, LastDot(sanitized, Len(sanitized) - 1))
    IN  IF blob.originalName # ""
        THEN of(sanitizeName(blob.originalName))
        ELSE [base |-> "pasted", ext |-> extFromMime(blob.type)]

\* a.byteLength === b.byteLength and every byte equal
buffersEqual(a, b) ==
    /\ Len(a) = Len(b)
    /\ \A i \in 1..Len(a) : a[i] = b[i]

\* the blobs handed to store: pasted without a name, named, named with a
\* character that sanitizeName drops, and named like the metadata file
StoredBlobs ==
    { [originalName |-> name, type |-> "image/png", bytes |-> bytes] :
        name \in {"", "p.png", "p?.png", "_meta.json"}, bytes \in {<< 1 >>, << 2 >>} }

\* the most store calls made
MaxStores == 3

\* the bytes saveMeta writes to _meta.json
MetaBytes == << 0 >>

\* a new store with no file and no call
StoreInit(kind) ==
    /\ storeKind = kind
    /\ directory = [name \in {} |-> << >>]
    /\ storeCalls = << >>

\* store(blob, originalName) is called: the first candidate name is
\* base.ext and the counter is 1
StoreCall(blob) ==
    LET derived == deriveBasename(blob)
    IN  /\ Len(storeCalls) < MaxStores
        /\ storeCalls' = Append(storeCalls,
                                [bytes |-> blob.bytes, base |-> derived.base, ext |-> derived.ext,
                                 filename |-> derived.base \o "." \o derived.ext, counter |-> 1,
                                 pc |-> "probe", returned |-> ""])
        /\ UNCHANGED << storeKind, directory, editorVars, resolverVars, widgetVars, completionVars, appVars >>

\* one turn of the while loop of call k.  A file of the candidate name with
\* the same size and bytes ends the call with that name; any other file
\* moves the call to the next candidate.  With no such file the loop ends:
\* MemoryImageStore sets the file at once and returns, OPFSImageStore goes on
\* to await the file handle.
StoreProbe(k) ==
    LET call == storeCalls[k]
    IN  /\ call.pc = "probe"
        /\ IF call.filename \in DOMAIN directory
           THEN /\ storeCalls' =
                      [storeCalls EXCEPT ![k] =
                          IF Len(directory[call.filename]) = Len(call.bytes)
                             /\ buffersEqual(directory[call.filename], call.bytes)
                          THEN [call EXCEPT !.pc = "done", !.returned = call.filename]
                          ELSE [call EXCEPT !.filename = call.base \o "-" \o ToString(call.counter)
                                                          \o "." \o call.ext,
                                            !.counter = call.counter + 1]]
                /\ UNCHANGED directory
           ELSE IF storeKind = "memory"
           THEN /\ directory' = (call.filename :> call.bytes) @@ directory
                /\ storeCalls' = [storeCalls EXCEPT ![k] =
                                      [call EXCEPT !.pc = "done", !.returned = call.filename]]
           ELSE /\ storeCalls' = [storeCalls EXCEPT ![k] = [call EXCEPT !.pc = "write"]]
                /\ UNCHANGED directory
        /\ UNCHANGED << storeKind, editorVars, resolverVars, widgetVars, completionVars, appVars >>

\* OPFSImageStore.store after the loop: the file handle is got with create,
\* and the blob is written and the writable closed
StoreWrite(k) ==
    LET call == storeCalls[k]
    IN  /\ call.pc = "write"
        /\ directory' = (call.filename :> call.bytes) @@ directory
        /\ storeCalls' = [storeCalls EXCEPT ![k] = [call EXCEPT !.pc = "meta"]]
        /\ UNCHANGED << storeKind, editorVars, resolverVars, widgetVars, completionVars, appVars >>

\* OPFSImageStore.store at its end: the metadata gets the entry of the
\* file, saveMeta writes _meta.json, and the call returns the name
StoreSaveMeta(k) ==
    LET call == storeCalls[k]
    IN  /\ call.pc = "meta"
        /\ directory' = ("_meta.json" :> MetaBytes) @@ directory
        /\ storeCalls' = [storeCalls EXCEPT ![k] =
                              [call EXCEPT !.pc = "done", !.returned = call.filename]]
        /\ UNCHANGED << storeKind, editorVars, resolverVars, widgetVars, completionVars, appVars >>

\* the contacts and tags the host hands to createCaptureAutocomplete, and
\* the entries of emojiMap in the order Object.entries lists them
Contacts == << [displayName |-> "Xa", handle |-> "ax"] >>

ExistingTags == << "xa" >>

emojiEntries == << << "100", emojiMap("100") >>, << "v", emojiMap("v") >>, << "x", emojiMap("x") >> >>

\* the characters typed into the document
TypedChars == {"@", "#", ":", "a", "x", " "}

\* the longest document typed one character at a time
MaxDocLen == 3

NoCompletion == [source |-> "none", from |-> 0, options |-> << >>]

NothingApplied == [source |-> "none", from |-> 0, to |-> 0, value |-> ""]

\* The position in beforeCursor of the character in front of the run of cls
\* characters that ends beforeCursor (-1 when the run starts the window):
\* where the trigger of /(?:^|P)T(cls*)$/ has to be
TriggerAt(beforeCursor, cls) ==
    LET RECURSIVE RunStart(_)
        RunStart(e) == IF e > 0 /\ Ch(beforeCursor, e - 1) \in cls THEN RunStart(e - 1) ELSE e
    IN  RunStart(Len(beforeCursor)) - 1

\* options.slice(0, n)
Take(options, n) == SubSeq(options, 1, IF Len(options) < n THEN Len(options) ELSE n)

\* the source of the @ trigger; a contact without email matches on its
\* display name or handle
mentionCompletion(contacts, state) ==
    LET result(beforeCursor, q) ==
            LET match1 == Slice(beforeCursor, q + 1, Len(beforeCursor))
                query == Trim(ToLowerCase(match1))
                filteredContacts ==
                    SelectSeq(contacts,
                              LAMBDA c : \/ IndexOfStr(ToLowerCase(c.displayName), query, 0) # -1
                                         \/ IndexOfStr(ToLowerCase(c.handle), query, 0) # -1)
                shown == Take(filteredContacts, 10)
                exact == \E k \in 1..Len(filteredContacts) :
                            ToLowerCase(filteredContacts[k].handle) = ToLowerCase(query)
            IN  IF q >= 0 /\ Ch(beforeCursor, q) = "@"
                   /\ (q = 0 \/ Ch(beforeCursor, q - 1) \notin WordChars \cup {"@"})
                THEN [source |-> "mention",
                      from |-> state.pos - Len(match1),
                      options |-> [k \in 1..Len(shown) |->
                                      [label |-> shown[k].displayName,
                                       value |-> shown[k].handle,
                                       insert |-> shown[k].handle \o " "]]
                                  \o (IF Len(query) > 0 /\ ~exact
                                      THEN << [label |-> query, value |-> query, insert |-> query \o " "] >>
                                      ELSE << >>)]
                ELSE NoCompletion
        source(beforeCursor) ==
            result(beforeCursor, TriggerAt(beforeCursor, LowerChars \cup UpperChars \cup DigitChars))
    IN  source(Slice(state.doc, IF state.pos > 50 THEN state.pos - 50 ELSE 0, state.pos))

\* the source of the # trigger
hashtagCompletion(existingTags, state) ==
    LET result(beforeCursor, q) ==
            LET match1 == Slice(beforeCursor, q + 1, Len(beforeCursor))
                query == ToLowerCase(match1)
                filteredTags ==
                    SelectSeq(existingTags, LAMBDA tag : IndexOfStr(ToLowerCase(tag), query, 0) # -1)
                shown == Take(filteredTags, 10)
                exact == \E k \in 1..Len(filteredTags) : ToLowerCase(filteredTags[k]) = query
            IN  IF q >= 0 /\ Ch(beforeCursor, q) = "#"
                   /\ (q = 0 \/ Ch(beforeCursor, q - 1) \notin WordChars \cup {"#"})
                THEN [source |-> "hashtag",
                      from |-> state.pos - Len(match1),
                      options |-> [k \in 1..Len(shown) |->
                                      [label |-> shown[k], value |-> shown[k], insert |-> shown[k] \o " "]]
                                  \o (IF Len(query) > 0 /\ ~exact
                                      THEN << [label |-> query, value |-> query, insert |-> query \o " "] >>
                                      ELSE << >>)]
                ELSE NoCompletion
        source(beforeCursor) == result(beforeCursor, TriggerAt(beforeCursor, TagChars))
    IN  source(Slice(state.doc, IF state.pos > 50 THEN state.pos - 50 ELSE 0, state.pos))

\* the source of the : trigger: from includes the colon, prefix matches come
\* before substring matches, and apply inserts the emoji alone
emojiCompletion(state) ==
    LET result(beforeCursor, q) ==
            LET match1 == Slice(beforeCursor, q, Len(beforeCursor))
                query == ToLowerCase(Slice(beforeCursor, q + 1, Len(beforeCursor)))
                prefixMatches == SelectSeq(emojiEntries, LAMBDA e : StartsWith(e[1], query))
                substringMatches ==
                    SelectSeq(emojiEntries,
                              LAMBDA e : ~StartsWith(e[1], query) /\ IndexOfStr(e[1], query, 0) # -1)
                filtered == Take(prefixMatches \o substringMatches, 16)
            IN  IF q >= 0 /\ Ch(beforeCursor, q) = ":"
                   /\ (q = 0 \/ Ch(beforeCursor, q - 1) \in SpaceChars \cup {"(", ",", ";"})
                THEN [source |-> "emoji",
                      from |-> state.pos - Len(match1),
                      options |-> [k \in 1..Len(filtered) |->
                                      [label |-> ":" \o filtered[k][1] \o ":",
                                       value |-> filtered[k][2],
                                       insert |-> filtered[k][2]]]]
                ELSE NoCompletion
        source(beforeCursor) == result(beforeCursor, TriggerAt(beforeCursor, EmojiCodeChars))
    IN  source(Slice(state.doc, IF state.pos > 40 THEN state.pos - 40 ELSE 0, state.pos))

\* createCaptureAutocomplete: the three sources, in the order of override
CompletionSources(state) ==
    << mentionCompletion(Contacts, state), hashtagCompletion(ExistingTags, state), emojiCompletion(state) >>

\* an empty document with the cursor at its start and no completion open
AutocompleteInit ==
    /\ completionView = [doc |-> "", pos |-> 0]
    /\ completionResult = NoCompletion
    /\ lastApplied = NothingApplied

\* a character typed at the cursor; the open completion is dropped
TypeText(c) ==
    /\ Len(completionView.doc) < MaxDocLen
    /\ completionView' = [doc |-> Slice(completionView.doc, 0, completionView.pos) \o c
                                    \o Slice(completionView.doc, completionView.pos, Len(completionView.doc)),
                          pos |-> completionView.pos + 1]
    /\ completionResult' = NoCompletion
    /\ lastApplied' = NothingApplied
    /\ UNCHANGED << editorVars, resolverVars, widgetVars, storeVars, appVars >>

\* the cursor put at offset p; the open completion is dropped
MoveCursor(p) ==
    /\ p # completionView.pos
    /\ completionView' = [completionView EXCEPT !.pos = p]
    /\ completionResult' = NoCompletion
    /\ lastApplied' = NothingApplied
    /\ UNCHANGED << editorVars, resolverVars, widgetVars, storeVars, appVars >>

\* source number k answers for the current state with a list of options
StartCompletion(k) ==
    /\ CompletionSources(completionView)[k].options # << >>
    /\ completionResult' = CompletionSources(completionView)[k]
    /\ lastApplied' = NothingApplied
    /\ UNCHANGED << completionView, editorVars, resolverVars, widgetVars, storeVars, appVars >>

\* option k of the open result accepted: its apply function is called with
\* the from of the result and the cursor as to, and dispatches the change
\* { from, to, insert } with the selection at from + insert.length
AcceptCompletion(k) ==
    LET from == completionResult.from
        to == completionView.pos
        option == completionResult.options[k]
    IN  /\ Len(completionView.doc) <= MaxDocLen
        /\ completionView' = [doc |-> Slice(completionView.doc, 0, from) \o option.insert
                                        \o Slice(completionView.doc, to, Len(completionView.doc)),
                              pos |-> from + Len(option.insert)]
        /\ completionResult' = NoCompletion
        /\ lastApplied' = [source |-> completionResult.source, from |-> from, to |-> to,
                           value |-> option.value]
        /\ UNCHANGED << editorVars, resolverVars, widgetVars, storeVars, appVars >>

InitAutocomplete ==
    /\ EditorInit(13, FALSE)
    /\ ResolverInit
    /\ AutocompleteInit
    /\ AppInit
    /\ StoreInit("memory")

NextAutocomplete ==
    \/ \E c \in TypedChars : TypeText(c)
    \/ \E p \in 0..Len(completionView.doc) : MoveCursor(p)
    \/ \E k \in 1..3 : StartCompletion(k)
    \/ \E k \in 1..Len(completionResult.options) : AcceptCompletion(k)

SpecAutocomplete == InitAutocomplete /\ [][NextAutocomplete]_vars

\* either store, new
InitStore ==
    /\ EditorInit(13, FALSE)
    /\ ResolverInit
    /\ AutocompleteInit
    /\ AppInit
    /\ \E kind \in {"memory", "opfs"} : StoreInit(kind)

NextStore ==
    \/ \E blob \in StoredBlobs : StoreCall(blob)
    \/ \E k \in 1..Len(storeCalls) : StoreProbe(k)
    \/ \E k \in 1..Len(storeCalls) : StoreWrite(k)
    \/ \E k \in 1..Len(storeCalls) : StoreSaveMeta(k)

SpecStore == InitStore /\ [][NextStore]_vars

\* every part of the program but the notes database, as constructed
\* NotesDB.get(id): the note, or nothing
GetNote(db, id) == IF id \in DOMAIN db THEN << db[id] >> ELSE << >>

\* EditorPane.loadNote(content): setContent dispatches a change only when
\* the buffer differs, and the update listener then calls onContentChange,
\* which restarts the debounce with the loaded content
LoadNote(content) ==
    IF editorDoc # content
    THEN editorDoc' = content /\ saveTimeout' = << content >>
    ELSE UNCHANGED << editorDoc, saveTimeout >>

\* a keystroke leaving content in the buffer: the update listener calls
\* App.onContentChange, which clears the pending timeout and sets a new
\* one; typing is taken while no selectNote is in flight
TypeContent(content) ==
    /\ selectNoteCall.pc = "idle"
    /\ editorDoc # content
    /\ editorDoc' = content
    /\ saveTimeout' = << content >>
    /\ typedInto' = IF activeNoteId # 0 THEN [typedInto EXCEPT ![activeNoteId] = content] ELSE typedInto
    /\ UNCHANGED << activeNoteId, isDraft, savedContent, selectNoteCall, notesVars, mentionVars, syncVars, baseVars >>

\* the debounce timer fires: App.saveCurrentNote(content) with the content
\* captured when the timer was set
SaveTimerFires ==
    /\ saveTimeout # << >>
    /\ saveTimeout' = << >>
    /\ LET content == saveTimeout[1]
           fresh == SessionNoteIds \ DOMAIN savedContent
       IN  IF Trim(content) = ""
           THEN UNCHANGED << activeNoteId, isDraft, savedContent >>
           ELSE IF isDraft
           THEN /\ fresh # {}
                /\ LET id == CHOOSE i \in fresh : \A j \in fresh : i <= j
                   IN  /\ savedContent' = (id :> content) @@ savedContent
                       /\ activeNoteId' = id
                /\ isDraft' = FALSE
           ELSE IF activeNoteId = 0 \/ activeNoteId \notin DOMAIN savedContent
           THEN UNCHANGED << activeNoteId, isDraft, savedContent >>
           ELSE /\ savedContent' = [savedContent EXCEPT ![activeNoteId] = content]
                /\ UNCHANGED << activeNoteId, isDraft >>
    /\ UNCHANGED << editorDoc, selectNoteCall, typedInto, notesVars, mentionVars, syncVars, baseVars >>

\* App.selectNote(id) up to its first await
SelectNote(id) ==
    /\ selectNoteCall.pc = "idle"
    /\ id \in DOMAIN savedContent
    /\ IF isDraft
       THEN /\ isDraft' = FALSE
            /\ activeNoteId' = id
            /\ selectNoteCall' = [pc |-> "get", id |-> id, note |-> GetNote(savedContent, id)]
       ELSE IF activeNoteId # 0 /\ activeNoteId # id
       THEN /\ selectNoteCall' = [pc |-> "current", id |-> id, note |-> GetNote(savedContent, activeNoteId)]
            /\ UNCHANGED << isDraft, activeNoteId >>
       ELSE /\ activeNoteId' = id
            /\ selectNoteCall' = [pc |-> "get", id |-> id, note |-> GetNote(savedContent, id)]
            /\ UNCHANGED isDraft
    /\ UNCHANGED << saveTimeout, editorDoc, savedContent, typedInto, notesVars, mentionVars, syncVars, baseVars >>

\* App.selectNote after db.get(this.activeNoteId): an empty current note is
\* deleted, then the active note changes and the selected note is read
SelectNoteCurrentRead ==
    /\ selectNoteCall.pc = "current"
    /\ LET current == selectNoteCall.note
           db == IF current # << >> /\ Trim(current[1]) = ""
                 THEN [i \in DOMAIN savedContent \ {activeNoteId} |-> savedContent[i]]
                 ELSE savedContent
       IN  /\ savedContent' = db
           /\ selectNoteCall' = [pc |-> "get", id |-> selectNoteCall.id,
                                  note |-> GetNote(db, selectNoteCall.id)]
    /\ activeNoteId' = selectNoteCall.id
    /\ UNCHANGED << isDraft, saveTimeout, editorDoc, typedInto, notesVars, mentionVars, syncVars, baseVars >>

\* App.selectNote after db.get(id): the note is loaded into the editor
SelectNoteLoad ==
    /\ selectNoteCall.pc = "get"
    /\ IF selectNoteCall.note # << >>
       THEN LoadNote(selectNoteCall.note[1])
       ELSE UNCHANGED << editorDoc, saveTimeout >>
    /\ selectNoteCall' = NoSelectNote
    /\ UNCHANGED << activeNoteId, isDraft, savedContent, typedInto, notesVars, mentionVars, syncVars, baseVars >>

\* App.createNewNote
CreateNewNote ==
    /\ selectNoteCall.pc = "idle"
    /\ ~isDraft
    /\ activeNoteId' = 0
    /\ isDraft' = TRUE
    /\ LoadNote("")
    /\ UNCHANGED << savedContent, selectNoteCall, typedInto, notesVars, mentionVars, syncVars, baseVars >>

BaseInit ==
    /\ EditorInit(13, FALSE)
    /\ ResolverInit
    /\ AutocompleteInit
    /\ StoreInit("memory")

InitNotes ==
    /\ BaseInit
    /\ AppInit

NextNotes ==
    \/ Tick
    \/ \E id \in 1..MaxNotes, content \in NoteContents : NotesCreate(id, content)
    \/ \E id \in 1..MaxNotes, content \in NoteContents : NotesUpdate(id, content)
    \/ \E id \in 1..MaxNotes : NotesSoftDelete(id)
    \/ \E id \in 1..MaxNotes : NotesRestore(id)

SpecNotes == InitNotes /\ [][NextNotes]_vars

\* mentionDecorationField.update for a transaction leading to state
MentionFieldUpdate(decorations, tr, state) ==
    IF tr.docChanged \/ tr.selection \/ tr.setContactsEffect
    THEN buildMentionDecorations(state)
    ELSE decorations

\* CaptureEditor.setContent(content): the buffer is replaced, the cursor is
\* mapped through the change
MentionSetContent(content) ==
    /\ mentionState.doc # content
    /\ mentionState' = [mentionState EXCEPT !.doc = content,
                                            !.head = IF mentionState.head = 0 THEN 0 ELSE Len(content)]
    /\ mentionDecorations' = MentionFieldUpdate(mentionDecorations,
                                                [docChanged |-> TRUE, selection |-> FALSE, setContactsEffect |-> FALSE],
                                                mentionState')
    /\ UNCHANGED << notesVars, sessionVars, syncVars, baseVars >>

\* the cursor put at offset head
MentionSelect(head) ==
    /\ head <= Len(mentionState.doc)
    /\ mentionState' = [mentionState EXCEPT !.head = head]
    /\ mentionDecorations' = MentionFieldUpdate(mentionDecorations,
                                                [docChanged |-> FALSE, selection |-> TRUE, setContactsEffect |-> FALSE],
                                                mentionState')
    /\ UNCHANGED << notesVars, sessionVars, syncVars, baseVars >>

\* CaptureEditor.updateContacts(contacts): two transactions, each with one
\* compartment reconfiguration effect, the first giving contactsFacet its
\* new value; neither changes the document, sets a selection or carries
\* setContactsEffect, and a field kept across a reconfiguration keeps its
\* value
UpdateContacts(contacts) ==
    /\ mentionState' = [mentionState EXCEPT !.contacts = contacts]
    /\ mentionDecorations' =
          MentionFieldUpdate(MentionFieldUpdate(mentionDecorations,
                                                [docChanged |-> FALSE, selection |-> FALSE, setContactsEffect |-> FALSE],
                                                mentionState'),
                             [docChanged |-> FALSE, selection |-> FALSE, setContactsEffect |-> FALSE],
                             mentionState')
    /\ UNCHANGED << notesVars, sessionVars, syncVars, baseVars >>

InitMentions ==
    /\ BaseInit
    /\ NotesInit
    /\ SessionInit
    /\ \E doc \in MentionDocs, readOnly \in BOOLEAN : MentionInit(doc, readOnly)
    /\ SyncInit

NextMentions ==
    \/ \E content \in MentionDocs : MentionSetContent(content)
    \/ \E head \in 0..MaxMentionHead : MentionSelect(head)
    \/ \E contacts \in ContactLists : UpdateContacts(contacts)

SpecMentions == InitMentions /\ [][NextMentions]_vars

\* the syncs made, the notes of the synced database, the sync runs started,
\* the note operations of one run, and the default concurrency of
\* runParallel
MaxSyncs == 2

MaxSyncNotes == 2

MaxSyncRuns == 2

SyncItems == 6

DefaultConcurrency == 5

\* the push phase of syncNotes for the local note with this id: the entry
\* of the Drive folder afterwards, << >> when there is none; an upload is
\* stamped with the time of the upload
PushNote(local, remote, id, direction) ==
    LET note == local[id]
        uploaded == << [modifiedTime |-> dateNow, note |-> note] >>
    IN  IF direction \notin {"push", "both"}
        THEN (IF id \in DOMAIN remote THEN << remote[id] >> ELSE << >>)
        ELSE IF id \notin DOMAIN remote
        THEN (IF ~note.deleted THEN uploaded ELSE << >>)
        ELSE IF note.updatedAt > remote[id].modifiedTime
        THEN (IF note.deleted /\ note.deletedAt # 0 /\ note.deletedAt > remote[id].modifiedTime
              THEN << >>
              ELSE uploaded)
        ELSE << remote[id] >>

\* the pull phase of syncNotes for the remote file of this id, as listed
\* before the push: the local note afterwards; a downloaded file is parsed
\* back into the note that was serialized into it and put into the store
PullNote(local, remote, id, direction) ==
    IF direction \notin {"pull", "both"}
    THEN local[id]
    ELSE IF id \notin DOMAIN local
    THEN remote[id].note
    ELSE IF direction = "both" /\ remote[id].modifiedTime > local[id].updatedAt
    THEN remote[id].note
    ELSE local[id]

\* syncNotes(db, imageStore, direction), its note phases, every Drive
\* operation succeeding
SyncNotes(direction) ==
    /\ syncCount < MaxSyncs
    /\ syncCount' = syncCount + 1
    /\ LET local == notes
           remote == remoteNotes
           pulled == IF direction \in {"pull", "both"} THEN DOMAIN remote ELSE {}
           kept == { id \in DOMAIN remote \cup DOMAIN local :
                        IF id \in DOMAIN local THEN PushNote(local, remote, id, direction) # << >>
                        ELSE TRUE }
       IN  /\ remoteNotes' = [id \in kept |-> IF id \in DOMAIN local
                                               THEN PushNote(local, remote, id, direction)[1]
                                               ELSE remote[id]]
           /\ notes' = [id \in DOMAIN local \cup pulled |->
                            IF id \in DOMAIN remote THEN PullNote(local, remote, id, direction)
                            ELSE local[id]]
    /\ UNCHANGED << lastTimestamp, dateNow, isSyncing, syncRunList, sessionVars, mentionVars, baseVars >>

InitSync ==
    /\ BaseInit
    /\ AppInit

NextSync ==
    \/ Tick
    \/ \E id \in 1..MaxSyncNotes, content \in NoteContents : NotesCreate(id, content)
    \/ \E id \in 1..MaxSyncNotes, content \in NoteContents : NotesUpdate(id, content)
    \/ \E id \in 1..MaxSyncNotes : NotesSoftDelete(id)
    \/ \E id \in 1..MaxSyncNotes : NotesRestore(id)
    \/ SyncNotes("both")

SpecSync == InitSync /\ [][NextSync]_vars

\* a Drive or storage operation of run r is awaited by one of its workers
HasPending(run) == \E w \in 1..Len(run.workers) : run.workers[w] = "pending"

\* App.syncNow(): nothing while isSyncing is set; else the flag is set and
\* syncNotes comes to runParallel, which starts min(concurrency, items)
\* workers, each taking an item and awaiting its operation
SyncNow ==
    /\ ~isSyncing
    /\ Len(syncRunList) < MaxSyncRuns
    /\ isSyncing' = TRUE
    /\ syncRunList' = Append(syncRunList,
                             [next |-> Min(DefaultConcurrency, SyncItems),
                              workers |-> [w \in 1..Min(DefaultConcurrency, SyncItems) |-> "pending"],
                              ended |-> "no"])
    /\ UNCHANGED << remoteNotes, syncCount, notesVars, sessionVars, mentionVars, baseVars >>

\* the operation worker w of run r awaits settles.  Fulfilled: the worker
\* takes the next item, if any is left, and else returns; when every worker
\* has returned, syncNotes returns and the finally block of syncNow clears
\* the flag.  Rejected: the worker rejects, Promise.all rejects at once,
\* syncNotes throws and syncNow clears the flag in its finally block, while
\* the other workers go on
OperationSettles(r, w, fulfilled) ==
    /\ r \in 1..Len(syncRunList)
    /\ w \in 1..Len(syncRunList[r].workers)
    /\ syncRunList[r].workers[w] = "pending"
    /\ LET run == syncRunList[r]
           more == run.next < SyncItems
           workers == [run.workers EXCEPT ![w] = IF ~fulfilled THEN "failed"
                                                 ELSE IF more THEN "pending" ELSE "done"]
           allDone == \A v \in 1..Len(workers) : workers[v] = "done"
           ended == IF run.ended # "no" THEN run.ended
                    ELSE IF ~fulfilled THEN "error"
                    ELSE IF allDone THEN "ok"
                    ELSE "no"
       IN  /\ syncRunList' = [syncRunList EXCEPT ![r] =
                                 [next |-> IF fulfilled /\ more THEN run.next + 1 ELSE run.next,
                                  workers |-> workers,
                                  ended |-> ended]]
           /\ isSyncing' = IF run.ended = "no" /\ ended # "no" THEN FALSE ELSE isSyncing
    /\ UNCHANGED << remoteNotes, syncCount, notesVars, sessionVars, mentionVars, baseVars >>

InitSyncRuns ==
    /\ BaseInit
    /\ AppInit

NextSyncRuns ==
    \/ SyncNow
    \/ \E r \in 1..MaxSyncRuns, w \in 1..DefaultConcurrency, fulfilled \in BOOLEAN :
          OperationSettles(r, w, fulfilled)

SpecSyncRuns == InitSyncRuns /\ [][NextSyncRuns]_vars

InitSession ==
    /\ BaseInit
    /\ AppInit

NextSession ==
    \/ \E content \in TypedContents : TypeContent(content)
    \/ SaveTimerFires
    \/ \E id \in SessionNoteIds : SelectNote(id)
    \/ SelectNoteCurrentRead
    \/ SelectNoteLoad
    \/ CreateNewNote

SpecSession == InitSession /\ [][NextSession]_vars

Init ==
    /\ \E f \in 1..Len(Fixtures), readOnly \in BOOLEAN : EditorInit(f, readOnly)
    /\ ResolverInit
    /\ AutocompleteInit
    /\ AppInit
    /\ StoreInit("memory")

\* the visible range of a document that fits the window, as after a change
Whole(text) == [from |-> 0, to |-> Len(text)]

\* CaptureEditor.setContent: the whole buffer is replaced, the selection is
\* mapped through the change
SetContent(f) ==
    LET old == editorView.text
        content == Fixtures[f].text
        head == IF editorView.head = Len(old) /\ Len(old) > 0 THEN Len(content) ELSE 0
    IN  /\ old # content
        /\ pads' = [above |-> 0, below |-> 0]
        /\ Dispatch(MakeView(content, Fixtures[f].nodes, head, editorView.readOnly, Whole(content)), TRUE, FALSE)

\* a paragraph typed at the cursor, at the start of the document: a change
\* with the selection set after the inserted text
TypeAbove ==
    /\ ~editorView.readOnly
    /\ pads.above < MaxPad
    /\ editorView.head = 0
    /\ pads' = [pads EXCEPT !.above = @ + 1]
    /\ Dispatch(MakeView(PadAbove \o editorView.text, ShiftNodes(editorView.nodes, Len(PadAbove)),
                         Len(PadAbove), editorView.readOnly, Whole(PadAbove \o editorView.text)), TRUE, TRUE)

\* a paragraph typed at the cursor, at the end of the document
TypeBelow ==
    /\ ~editorView.readOnly
    /\ pads.below < MaxPad
    /\ editorView.head = Len(editorView.text)
    /\ pads' = [pads EXCEPT !.below = @ + 1]
    /\ Dispatch(MakeView(editorView.text \o PadBelow, editorView.nodes,
                         Len(editorView.text) + Len(PadBelow), editorView.readOnly,
                         Whole(editorView.text \o PadBelow)), TRUE, TRUE)

\* the first typed paragraph selected and deleted
DeleteAbove ==
    /\ ~editorView.readOnly
    /\ pads.above > 0
    /\ pads' = [pads EXCEPT !.above = @ - 1]
    /\ Dispatch(MakeView(Slice(editorView.text, Len(PadAbove), Len(editorView.text)),
                         ShiftNodes(editorView.nodes, 0 - Len(PadAbove)), 0, editorView.readOnly,
                         Whole(Slice(editorView.text, Len(PadAbove), Len(editorView.text)))), TRUE, TRUE)

\* the last typed paragraph selected and deleted
DeleteBelow ==
    /\ ~editorView.readOnly
    /\ pads.below > 0
    /\ pads' = [pads EXCEPT !.below = @ - 1]
    /\ Dispatch(MakeView(Slice(editorView.text, 0, Len(editorView.text) - Len(PadBelow)), editorView.nodes,
                         Len(editorView.text) - Len(PadBelow), editorView.readOnly,
                         Whole(Slice(editorView.text, 0, Len(editorView.text) - Len(PadBelow)))), TRUE, TRUE)

\* the cursor moved: a transaction that sets the selection
SetSelection(head) ==
    /\ head # editorView.head
    /\ UNCHANGED pads
    /\ Dispatch([editorView EXCEPT !.head = head], FALSE, TRUE)

\* the host scrolled: an update with a new visible range only
ViewportChange(vp) ==
    /\ vp.from # editorView.vpFrom \/ vp.to # editorView.vpTo
    /\ UNCHANGED pads
    /\ Dispatch([editorView EXCEPT !.vpFrom = vp.from, !.vpTo = vp.to], FALSE, FALSE)

\* a transaction with effects only (the theme observer's reconfigure)
Reconfigure ==
    /\ UNCHANGED pads
    /\ Dispatch(editorView, FALSE, FALSE)

\* the click listener of a CheckboxWidget reporting the state the box
\* already has
ClickCheckboxUnchanged(d) ==
    /\ d.w = "CheckboxWidget"
    /\ toggled' = << [pos |-> d.n, checked |-> d.a = "true"] >>
    /\ UNCHANGED << editorView, pads, inlineDecorations, tableDecorations, fileDecorations,
                    lastUpdate, resolverVars, hostVars, widgetVars >>

\* a click on the rendered checkbox of decoration d: the listener toDOM
\* added calls this.onToggle(this.pos, !this.checked)
ClickCheckbox(d) ==
    /\ d.w = "CheckboxWidget"
    /\ toggled' = << [pos |-> d.n, checked |-> ~(d.a = "true")] >>
    /\ UNCHANGED << editorView, pads, inlineDecorations, tableDecorations, fileDecorations,
                    lastUpdate, resolverVars, hostVars, widgetVars >>

Next ==
    \/ \E f \in 1..Len(Fixtures) : SetContent(f)
    \/ TypeAbove
    \/ TypeBelow
    \/ DeleteAbove
    \/ DeleteBelow
    \/ \E head \in Heads(editorView.text) : SetSelection(head)
    \/ \E vp \in Viewports(editorView.text) : ViewportChange(vp)
    \/ Reconfigure
    \/ \E i \in 1..Len(inlineDecorations) : ClickCheckbox(inlineDecorations[i])

Spec == Init /\ [][Next]_vars

\* ------------------------------------------------------------------------
\* FileResolver: resolve calls of the file widgets interleaved with the
\* completions of the store's retrievals and the destroy of the plugin.  A
\* URL.createObjectURL result is the number of the creation; cache maps a
\* name to its URL, 0 when the name is not cached.
\* ------------------------------------------------------------------------

MaxResolves == 4

\* resolve(filename) without the test of the pending map
ResolveWithoutPending(filename) ==
    /\ ~destroyed
    /\ resolves < MaxResolves
    /\ resolves' = resolves + 1
    /\ IF cache[filename] # 0
       THEN /\ lastResolve' = [filename |-> filename, wasInFlight |-> inFlight[filename] > 0,
                               returned |-> "cached"]
            /\ UNCHANGED << pending, inFlight >>
       ELSE /\ inFlight' = [inFlight EXCEPT ![filename] = @ + 1]
            /\ pending' = pending \cup {filename}
            /\ lastResolve' = [filename |-> filename, wasInFlight |-> inFlight[filename] > 0,
                               returned |-> "retrieval"]
    /\ UNCHANGED << cache, created, revoked, destroyed, editorVars, hostVars >>

\* resolve(filename), called by a widget's toDOM while the view lives: the
\* cached URL, else the pending promise, else a new store.retrieve whose
\* promise is put in the pending map
Resolve(filename) ==
    /\ ~destroyed
    /\ resolves < MaxResolves
    /\ resolves' = resolves + 1
    /\ IF cache[filename] # 0
       THEN /\ lastResolve' = [filename |-> filename, wasInFlight |-> inFlight[filename] > 0,
                               returned |-> "cached"]
            /\ UNCHANGED << pending, inFlight >>
       ELSE IF filename \in pending
       THEN /\ lastResolve' = [filename |-> filename, wasInFlight |-> inFlight[filename] > 0,
                               returned |-> "pending"]
            /\ UNCHANGED << pending, inFlight >>
       ELSE /\ inFlight' = [inFlight EXCEPT ![filename] = @ + 1]
            /\ pending' = pending \cup {filename}
            /\ lastResolve' = [filename |-> filename, wasInFlight |-> inFlight[filename] > 0,
                               returned |-> "retrieval"]
    /\ UNCHANGED << cache, created, revoked, destroyed, editorVars, hostVars >>

\* a retrieval of filename fulfils, with a blob or with undefined, and the
\* then callback runs: both stores catch their errors, so no retrieval rejects
Retrieved(filename, hasBlob) ==
    /\ inFlight[filename] > 0
    /\ inFlight' = [inFlight EXCEPT ![filename] = @ - 1]
    /\ pending' = pending \ {filename}
    /\ IF hasBlob
       THEN /\ created' = created + 1
            /\ cache' = [cache EXCEPT ![filename] = created + 1]
       ELSE UNCHANGED << created, cache >>
    /\ UNCHANGED << revoked, destroyed, resolves, lastResolve, editorVars, hostVars >>

\* FileDecoPlugin.destroy: resolver.revokeAll()
Destroy ==
    /\ ~destroyed
    /\ destroyed' = TRUE
    /\ revoked' = revoked \cup { cache[filename] : filename \in { n \in FileNames : cache[n] # 0 } }
    /\ cache' = [filename \in FileNames |-> 0]
    /\ UNCHANGED << pending, inFlight, created, resolves, lastResolve, editorVars, hostVars, widgetVars >>

\* the element toDOM returns before the promise of resolve settles: the image
\* with its alt text, the chip with the link text or else the filename
WidgetDOM(widget) ==
    [widget |-> widget.w,
     filename |-> widget.a,
     shown |-> IF widget.w = "FileChipWidget" /\ widget.b = "" THEN widget.a ELSE widget.b,
     src |-> 0,
     clickable |-> FALSE,
     waiting |-> TRUE,
     outcome |-> "none"]

\* a then callback that leaves the image as toDOM built it when there is no URL
ThenCallbackKeepingAlt(dom, url, outcome) ==
    IF url # 0
    THEN [dom EXCEPT !.src = IF dom.widget = "InlineImageWidget" THEN url ELSE 0,
                     !.clickable = TRUE, !.waiting = FALSE, !.outcome = outcome]
    ELSE [dom EXCEPT !.waiting = FALSE, !.outcome = outcome]

\* the then callback of a widget, run with the URL resolve gave (0 for
\* undefined): the image gets src and a click listener, or the alt
\* [Missing: filename]; the chip gets a click listener or stays as built
ThenCallback(dom, url, outcome) ==
    IF url # 0
    THEN [dom EXCEPT !.src = IF dom.widget = "InlineImageWidget" THEN url ELSE 0,
                     !.clickable = TRUE, !.waiting = FALSE, !.outcome = outcome]
    ELSE [dom EXCEPT !.shown = IF dom.widget = "InlineImageWidget"
                               THEN "[Missing: " \o dom.filename \o "]" ELSE @,
                     !.waiting = FALSE, !.outcome = outcome]

\* the ways store.retrieve ends: with the blob, with undefined because the
\* store has no such file, or with undefined because reading it threw and
\* the store caught the error
RetrieveOutcomes == {"blob", "missing", "failed"}

\* toDOM of the file widget of decoration i: the element is built and
\* resolve(filename) is called; a cached URL reaches the callback at once
ToDOM(i) ==
    LET widget == fileDecorations[i]
    IN  /\ Resolve(widget.a)
        /\ doms' = doms \cup {IF cache[widget.a] # 0
                               THEN ThenCallback(WidgetDOM(widget), cache[widget.a], "blob")
                               ELSE WidgetDOM(widget)}

\* the retrieval of filename ends and the promise of resolve settles: the
\* then callbacks of the elements waiting for it run
Settle(filename, outcome) ==
    /\ Retrieved(filename, outcome = "blob")
    /\ doms' = { IF d.waiting /\ d.filename = filename
                 THEN ThenCallback(d, IF outcome = "blob" THEN created + 1 ELSE 0, outcome)
                 ELSE d : d \in doms }

\* the editor over the document with a jotter-file link, the resolver new
InitResolver ==
    /\ EditorInit(35, FALSE)
    /\ ResolverInit
    /\ AutocompleteInit
    /\ AppInit
    /\ StoreInit("memory")

NextResolver ==
    \/ \E i \in 1..Len(fileDecorations) : ToDOM(i)
    \/ \E filename \in FileNames, outcome \in RetrieveOutcomes : Settle(filename, outcome)
    \/ Destroy

SpecResolver == InitResolver /\ [][NextResolver]_vars

\* ------------------------------------------------------------------------
\* Properties of the two layers
\* ------------------------------------------------------------------------

\* the spans of a layer, as a set
Spans(layer) == { layer[i] : i \in 1..Len(layer) }

IsHide(d) == d.type = "mark" /\ d.cls = "cm-formatting-hidden"

IsReplace(d) == d.type = "replace"

Overlap(a, b) == a.from < b.to /\ b.from < a.to

\* the line numbers of the current buffer that positions from..to touch
\* include the line of the cursor
CursorWithinLines(from, to) ==
    LET lines == DocLines(editorView.text)
        cursorLine == LineAt(lines, editorView.head)
    IN  cursorLine >= LineAt(lines, from) /\ cursorLine <= LineAt(lines, to)

\* C1: in any single rebuild no buffer offset is covered both by a Hide span
\* and by a ReplaceInline span
C1_NoHideUnderReplace ==
    \A h \in Spans(inlineDecorations), r \in Spans(inlineDecorations) :
        IsHide(h) /\ IsReplace(r) => ~Overlap(h, r)

DelimitedNames == {"Emphasis", "StrongEmphasis", "Strikethrough", "InlineCode"}

DelimiterWidth(name) == IF name \in {"StrongEmphasis", "Strikethrough"} THEN 2 ELSE 1

StyleOf(name) ==
    CASE name = "Emphasis" -> "cm-italic"
      [] name = "StrongEmphasis" -> "cm-bold"
      [] name = "Strikethrough" -> "cm-strikethrough"
      [] name = "InlineCode" -> "cm-code"

HasMark(layer, cls, from, to) ==
    \E d \in Spans(layer) : d.type = "mark" /\ d.cls = cls /\ d.from = from /\ d.to = to

\* the delimiters of the node are hidden exactly when the cursor is on none
\* of its lines, and its interior is marked either way
DelimitedAsClaimed(node) ==
    LET width == DelimiterWidth(node.name)
        outside == ~CursorWithinLines(node.from, node.to)
    IN  /\ HasMark(inlineDecorations, "cm-formatting-hidden", node.from, node.from + width) <=> outside
        /\ HasMark(inlineDecorations, "cm-formatting-hidden", node.to - width, node.to) <=> outside
        /\ HasMark(inlineDecorations, StyleOf(node.name), node.from + width, node.to - width)

Visible(node) == node.from <= editorView.vpTo /\ node.to >= editorView.vpFrom

\* C2 as stated: in editable mode, for every emphasis, strong, strikethrough
\* or inline-code node the Hide spans over its delimiters are emitted exactly
\* when the cursor's line lies outside the node's line range, and the
\* interior Mark span is emitted in both cases
C2_EveryDelimitedNode ==
    ~editorView.readOnly =>
        \A k \in 1..Len(editorView.nodes) :
            editorView.nodes[k].name \in DelimitedNames => DelimitedAsClaimed(editorView.nodes[k])

\* C2 as amended: the same, for every such node that the visible range
\* touches
C2_EveryVisibleDelimitedNode ==
    ~editorView.readOnly =>
        \A k \in 1..Len(editorView.nodes) :
            editorView.nodes[k].name \in DelimitedNames /\ Visible(editorView.nodes[k])
                => DelimitedAsClaimed(editorView.nodes[k])

\* an editable view showing a delimited node of two lines with the cursor on
\* its second line, next to an unrelated paragraph
C2_Witness ==
    /\ ~editorView.readOnly
    /\ pads.below = 1
    /\ \E k \in 1..Len(editorView.nodes) :
          LET node == editorView.nodes[k]
              lines == DocLines(editorView.text)
          IN  /\ node.name \in DelimitedNames /\ Visible(node)
              /\ LineAt(lines, node.from) < LineAt(lines, node.to)
              /\ LineAt(lines, editorView.head) = LineAt(lines, node.to)
              /\ HasMark(inlineDecorations, StyleOf(node.name), node.from + 1, node.to - 1)
              /\ ~HasMark(inlineDecorations, "cm-formatting-hidden", node.from, node.from + 1)

\* the view with the cursor moved to head
WithHead(head) == [editorView EXCEPT !.head = head]

\* the decorations that show a construct in its source form, as on the
\* cursor's line
SourceFormClasses == {"cm-link-text", "cm-url-chip", "cm-hr-source"}

\* C3: when the read-only flag is true the decoration sets of both layers
\* are the same for every cursor position and every detected construct is
\* rendered: no decoration of the source form, the delimiters of every
\* visible delimited node hidden, every well-formed table replaced
C3_ReadOnlyIgnoresCursor ==
    editorView.readOnly =>
        /\ \A head \in Heads(editorView.text) :
              /\ InlineLayer[WithHead(head)] = inlineDecorations
              /\ BlockLayer[WithHead(head)] = tableDecorations
        /\ \A d \in Spans(inlineDecorations) : d.cls \notin SourceFormClasses
        /\ \A k \in 1..Len(editorView.nodes) :
              LET node == editorView.nodes[k]
                  width == DelimiterWidth(node.name)
              IN  /\ node.name \in DelimitedNames /\ Visible(node) =>
                        /\ HasMark(inlineDecorations, "cm-formatting-hidden", node.from, node.from + width)
                        /\ HasMark(inlineDecorations, "cm-formatting-hidden", node.to - width, node.to)
                  /\ node.name = "Table"
                     /\ parseMarkdownTable(Slice(editorView.text, node.from, node.to)).ok =>
                        \E d \in Spans(tableDecorations) :
                            d.w = "TableWidget" /\ d.from = node.from /\ d.to = node.to

\* a read-only view whose cursor was moved onto the line of a replaced
\* construct
C3_Witness ==
    /\ editorView.readOnly
    /\ editorView.head > 0
    /\ \E r \in Spans(inlineDecorations) \cup Spans(tableDecorations) :
          IsReplace(r) /\ CursorWithinLines(r.from, r.to)

RECURSIVE FootnoteMentions(_, _)
\* the ids of the footnote labels of the text, an opening bracket and
\* caret, the id and a closing bracket, in document order from index i
FootnoteMentions(t, i) ==
    LET open == IndexOfStr(t, "[^", i)
        close == IndexOfFrom(t, "]", open + 2)
        id == Slice(t, open + 2, close)
    IN  IF open = -1 \/ close = -1 THEN << >>
        ELSE IF close = open + 2 \/ IndexOfFrom(id, "\n", 0) >= 0
        THEN FootnoteMentions(t, open + 1)
        ELSE << id >> \o FootnoteMentions(t, close + 1)

\* the 1-based rank of the first appearance of id among the ids of ms
FirstAppearanceRank(ms, id) ==
    LET first == CHOOSE k \in 1..Len(ms) : ms[k] = id /\ \A j \in 1..(k - 1) : ms[j] # id
    IN  Cardinality({ ms[j] : j \in 1..first })

\* C4: within one rebuild every rendered reference to a footnote id and the
\* rendered label of its definition show the same number, the 1-based rank
\* of the id's first appearance in the document, whatever the cursor position
C4_FootnoteNumberIsRank ==
    LET ms == FootnoteMentions(editorView.text, 0)
    IN  \A d \in Spans(inlineDecorations) :
            d.w = "FootnoteRefWidget" => d.n = FirstAppearanceRank(ms, d.a)

\* C5: every Replace span of the inline layer starts and ends on the same
\* line: the text it covers holds no line break
C5_ReplaceWithinLine ==
    \A r \in Spans(inlineDecorations) :
        IsReplace(r) => IndexOfFrom(Slice(editorView.text, r.from, r.to), "\n", 0) = -1

\* C6: the block layer is rebuilt on exactly the updates that change the
\* document or the selection and is left as it was by any other update, a
\* pure viewport change included; the inline layer is rebuilt on exactly
\* the updates that change the document, the selection or the viewport
\* (a click on a checkbox dispatches no transaction and is no update)
C6_RebuildTriggers ==
    [][LET u == lastUpdate'
       IN  toggled' = << >> =>
           /\ u.blockRebuilt <=> (u.docChanged \/ u.selectionSet)
           /\ u.inlineRebuilt <=> (u.docChanged \/ u.selectionSet \/ u.viewportChanged)
           /\ u.blockRebuilt => tableDecorations' = BlockLayer[editorView']
           /\ ~u.blockRebuilt => tableDecorations' = tableDecorations
           /\ u.inlineRebuilt => inlineDecorations' = InlineLayer[editorView']
           /\ ~u.inlineRebuilt => inlineDecorations' = inlineDecorations]_vars

\* after a pure viewport change over a document with a block widget: the
\* inline layer was rebuilt and the block layer was not
C6_Witness ==
    /\ lastUpdate.viewportChanged /\ ~lastUpdate.docChanged /\ ~lastUpdate.selectionSet
    /\ lastUpdate.inlineRebuilt /\ ~lastUpdate.blockRebuilt
    /\ tableDecorations # << >>

SortedByFromTo(layer) ==
    \A i \in 1..(Len(layer) - 1) :
        \/ layer[i].from < layer[i + 1].from
        \/ layer[i].from = layer[i + 1].from /\ layer[i].to <= layer[i + 1].to

\* C7: the span list each layer returns is in non-decreasing lexicographic
\* order of (from, to)
C7_LayersSortedByFromTo ==
    SortedByFromTo(inlineDecorations) /\ SortedByFromTo(tableDecorations)

\* C10: no decoration produced by a Span Scanner pass starts at an offset
\* that lies inside an inline-code or fenced-code node of the document
C10_NoScannerSpanStartsInCode ==
    LET scanned == ScanLines(editorView, DocLines(editorView.text), CodeRanges(editorView), 1, << >>)
    IN  \A d \in Spans(scanned), k \in 1..Len(editorView.nodes) :
            editorView.nodes[k].name \in {"InlineCode", "FencedCode"} =>
                ~(d.from >= editorView.nodes[k].from /\ d.from < editorView.nodes[k].to)

\* C8: at most one retrieval of a name is in flight at any time, and a
\* resolve call made while one is in flight returns the pending promise
\* instead of starting another
C8_OneRetrievalPerName ==
    /\ \A filename \in FileNames : inFlight[filename] <= 1
    /\ lastResolve.wasInFlight => lastResolve.returned = "pending"

\* a second resolve of a name whose retrieval is still in flight
C8_Witness ==
    /\ lastResolve.wasInFlight
    /\ lastResolve.returned = "pending"
    /\ inFlight[lastResolve.filename] = 1
    /\ resolves >= 2

\* C9: once the view is destroyed and every pending resolution has settled,
\* every blob URL the resolver created has been revoked
C9_AllUrlsRevoked ==
    destroyed /\ (\A filename \in FileNames : inFlight[filename] = 0)
        => \A url \in 1..created : url \in revoked

WidgetSpans ==
    { d \in Spans(inlineDecorations) \cup Spans(tableDecorations) \cup Spans(fileDecorations) :
        d.w # "" }

\* the constructor arguments a widget renders: all but the offset a
\* checkbox reports on a click
SameDisplay(x, y) ==
    /\ x.w = y.w /\ x.a = y.a /\ x.b = y.b
    /\ x.w = "FootnoteRefWidget" => x.n = y.n
    /\ x.w = "TableWidget" => x.table = y.table

\* a paragraph typed or deleted away from every construct
UnrelatedEdit == lastUpdate'.docChanged /\ lastUpdate'.selectionSet /\ pads' # pads

\* C12: the identity key decides widget equality and is sufficient: after
\* an edit elsewhere, the widget over an unchanged source at the mapped
\* position equals the widget it replaces, and widgets that compare equal
\* agree on every argument they display.
C12_IdentityKeySufficient ==
    [][/\ UnrelatedEdit =>
             LET shift == (pads'.above - pads.above) * Len(PadAbove)
             IN  \A x \in WidgetSpans, y \in WidgetSpans' :
                     /\ y.w = x.w /\ y.from = x.from + shift /\ y.to = x.to + shift
                     /\ Slice(editorView'.text, y.from, y.to) = Slice(editorView.text, x.from, x.to)
                     => WidgetEq(x, y)
       /\ \A x \in WidgetSpans', y \in WidgetSpans' : WidgetEq(x, y) => SameDisplay(x, y)]_vars

\* the second half of C12 alone, for the stored-file widgets
C12_FileWidgetsAgree ==
    \A x \in Spans(fileDecorations), y \in Spans(fileDecorations) : WidgetEq(x, y) => SameDisplay(x, y)

RECURSIVE SplitUnescaped(_, _, _)
\* the pieces of t between the pipes that no backslash escapes: the piece
\* from start on, the scan being at i
SplitUnescaped(t, start, i) ==
    IF i >= Len(t) THEN << Slice(t, start, Len(t)) >>
    ELSE IF Ch(t, i) = "|" /\ Ch(t, i - 1) # "\\"
    THEN << Slice(t, start, i) >> \o SplitUnescaped(t, i + 1, i + 1)
    ELSE SplitUnescaped(t, start, i + 1)

\* the cells of a table line as the source has them: one leading and one
\* trailing pipe dropped, split at the unescaped pipes, each cell trimmed
SourceCells(line) ==
    LET inner(t) == Slice(t, IF StartsWith(t, "|") THEN 1 ELSE 0,
                             IF EndsWith(t, "|") THEN Len(t) - 1 ELSE Len(t))
        trimmed(cells) == [k \in 1..Len(cells) |-> Trim(cells[k])]
    IN  trimmed(SplitUnescaped(inner(Trim(line)), 0, 0))

SourceAlignment(cell) ==
    IF Ch(cell, 0) = ":" /\ Ch(cell, Len(cell) - 1) = ":" THEN "center"
    ELSE IF Ch(cell, Len(cell) - 1) = ":" THEN "right"
    ELSE IF Ch(cell, 0) = ":" THEN "left"
    ELSE ""

\* the non-blank lines of a table source
SourceLines(raw) == SelectSeq(Split(raw, "\n"), LAMBDA l : HasNonSpace(l))

WellFormedTable(raw) ==
    /\ Len(SourceLines(raw)) >= 2
    /\ \A k \in 1..Len(SourceCells(SourceLines(raw)[2])) :
          IsSeparatorCell(SourceCells(SourceLines(raw)[2])[k])

\* C13: for every well-formed table the parse gives the headers, alignments
\* and rows of the source, column for column: cells split at the unescaped
\* pipes only and trimmed, alignments from the colons of the separator cells.
C13_TableParseMatchesSource ==
    \A k \in 1..Len(editorView.nodes) :
        editorView.nodes[k].name = "Table" =>
            LET raw == Slice(editorView.text, editorView.nodes[k].from, editorView.nodes[k].to)
                lines == SourceLines(raw)
            IN  WellFormedTable(raw) =>
                    parseMarkdownTable(raw) =
                        [ok |-> TRUE,
                         headers |-> SourceCells(lines[1]),
                         alignments |-> [c \in 1..Len(SourceCells(lines[2])) |->
                                            SourceAlignment(SourceCells(lines[2])[c])],
                         rows |-> [r \in 1..(Len(lines) - 2) |-> SourceCells(lines[r + 2])]]

\* C13 for the tables without an escaped pipe
C13_UnescapedTablesMatch ==
    \A k \in 1..Len(editorView.nodes) :
        editorView.nodes[k].name = "Table" =>
            LET raw == Slice(editorView.text, editorView.nodes[k].from, editorView.nodes[k].to)
                lines == SourceLines(raw)
            IN  WellFormedTable(raw) /\ IndexOfStr(raw, "\\|", 0) = -1 =>
                    parseMarkdownTable(raw) =
                        [ok |-> TRUE,
                         headers |-> SourceCells(lines[1]),
                         alignments |-> [c \in 1..Len(SourceCells(lines[2])) |->
                                            SourceAlignment(SourceCells(lines[2])[c])],
                         rows |-> [r \in 1..(Len(lines) - 2) |-> SourceCells(lines[r + 2])]]

\* a table node whose separator line has a cell failing the pattern
BadSeparatorTable(node) ==
    /\ node.name = "Table"
    /\ Len(SourceLines(Slice(editorView.text, node.from, node.to))) >= 2
    /\ ~WellFormedTable(Slice(editorView.text, node.from, node.to))

\* a fenced block that runs to the end of the document without a closing
\* fence
UnterminatedFence(node) ==
    /\ node.name = "FencedCode"
    /\ node.to = Len(editorView.text)
    /\ LET lines == DocLines(editorView.text)
           last == LineText(editorView.text, lines, LineAt(lines, node.to))
       IN  \/ LineAt(lines, node.from) = LineAt(lines, node.to)
           \/ ~StartsWith(last, Backtick \o Backtick \o Backtick)

\* the Hide spans, Replace spans and widgets of the three layers
RenderingSpans ==
    { d \in Spans(inlineDecorations) \cup Spans(tableDecorations) \cup Spans(fileDecorations) :
        IsHide(d) \/ IsReplace(d) \/ d.w # "" }

\* C14: a malformed multi-line construct, a table with a bad separator cell
\* or a fence left unterminated at the end of the document, gets no Hide
\* span, no Replace span and no widget on any part of it.
C14_MalformedLeftAsText ==
    \A k \in 1..Len(editorView.nodes) :
        BadSeparatorTable(editorView.nodes[k]) \/ UnterminatedFence(editorView.nodes[k]) =>
            \A d \in RenderingSpans :
                ~(d.from >= editorView.nodes[k].from /\ d.from <= editorView.nodes[k].to)

\* C14 for the tables alone
C14_BadTableLeftAsText ==
    \A k \in 1..Len(editorView.nodes) :
        BadSeparatorTable(editorView.nodes[k]) =>
            \A d \in RenderingSpans :
                ~(d.from >= editorView.nodes[k].from /\ d.from <= editorView.nodes[k].to)

\* C15: no inline-formula Replace span covers an offset of a detected block
\* formula range.
C15_InlineMathOutsideBlockMath ==
    \A d \in Spans(tableDecorations) :
        d.w = "InlineMathWidget" =>
            \A k \in 1..Len(BlockMathMatches(editorView.text, 0)) :
                ~Overlap(d, BlockMathMatches(editorView.text, 0)[k])

\* the target of link or image node k uses a scheme other than http(s)
CustomSchemeTarget(k) ==
    /\ editorView.nodes[k].name \in {"Link", "Image"}
    /\ \E u \in Spans(ChildrenNamed(editorView, k, "URL")) :
          LET url == Slice(editorView.text, editorView.nodes[u].from, editorView.nodes[u].to)
          IN  /\ IndexOfStr(url, "://", 0) >= 0
              /\ ~StartsWith(url, "http://") /\ ~StartsWith(url, "https://")

\* C16: a link or image node with a custom-scheme target carries no
\* decoration of the inline layer, wherever the cursor is and in read-only
\* mode too.
C16_CustomSchemeUndecorated ==
    \A k \in 1..Len(editorView.nodes) :
        CustomSchemeTarget(k) =>
            \A d \in Spans(inlineDecorations) :
                ~(d.from >= editorView.nodes[k].from /\ d.to <= editorView.nodes[k].to)

\* C16 with the cursor off the lines of the node
C16_UndecoratedOffCursor ==
    \A k \in 1..Len(editorView.nodes) :
        /\ CustomSchemeTarget(k)
        /\ editorView.readOnly \/ ~CursorWithinLines(editorView.nodes[k].from, editorView.nodes[k].to)
        => \A d \in Spans(inlineDecorations) :
               ~(d.from >= editorView.nodes[k].from /\ d.to <= editorView.nodes[k].to)

\* C17: a click on a rendered checkbox calls the toggle callback once, with
\* the offset the task marker has in the buffer now and the negation of the
\* state the marker has now, and leaves the buffer as it is.
C17_ClickReportsToggle ==
    [][toggled' # << >> =>
          /\ Len(toggled') = 1
          /\ editorView' = editorView
          /\ \E k \in 1..Len(editorView.nodes) :
                LET marker == Slice(editorView.text, editorView.nodes[k].from, editorView.nodes[k].to)
                IN  /\ editorView.nodes[k].name = "TaskMarker"
                    /\ toggled'[1].pos = editorView.nodes[k].from
                    /\ toggled'[1].checked = ~(marker \in {"[x]", "[X]"})]_vars

\* a checked box clicked after a paragraph was typed above its item
C17_Witness ==
    /\ toggled = << [pos |-> 6 + Len(PadAbove), checked |-> FALSE] >>
    /\ pads.above = 1
    /\ Slice(editorView.text, 6 + Len(PadAbove), 9 + Len(PadAbove)) = "[x]"

\* C18: for each of the triggers @, # and :, accepting a suggestion replaces
\* the range from the start of the completion to the cursor with the chosen
\* value followed by one space, and leaves the cursor after that space.
C18_AcceptInsertsValueAndSpace ==
    [][lastApplied'.source # "none" =>
          LET a == lastApplied'
              d == completionView.doc
          IN  /\ completionView'.doc = Slice(d, 0, a.from) \o a.value \o " " \o Slice(d, a.to, Len(d))
              /\ completionView'.pos = a.from + Len(a.value) + 1]_vars

\* the same for the @ and # triggers alone
C18_MentionAndTagEndWithSpace ==
    [][lastApplied'.source \in {"mention", "hashtag"} =>
          LET a == lastApplied'
              d == completionView.doc
          IN  /\ completionView'.doc = Slice(d, 0, a.from) \o a.value \o " " \o Slice(d, a.to, Len(d))
              /\ completionView'.pos = a.from + Len(a.value) + 1]_vars

\* an emoji accepted with the cursor left right after the glyph
C18_EmojiWithoutSpace ==
    /\ lastApplied.source = "emoji"
    /\ completionView.pos = lastApplied.from + Len(lastApplied.value)
    /\ Ch(completionView.doc, completionView.pos) # " "

\* C19: a file reference the store has no file for, or whose retrieval
\* failed, ends up shown as a labelled element without URL or click
\* listener, and no promise is left unsettled or rejected: every element
\* still waiting has its retrieval in flight.
C19_UnresolvedShownAsPlaceholder ==
    \A d \in doms :
        /\ d.waiting => inFlight[d.filename] > 0
        /\ d.outcome \in {"missing", "failed"} =>
              /\ d.shown # ""
              /\ d.src = 0
              /\ ~d.clickable
              /\ d.widget = "InlineImageWidget" => d.shown = "[Missing: " \o d.filename \o "]"

\* the image whose retrieval failed shows the placeholder, the chip whose
\* file the store does not have shows the filename
C19_Witness ==
    /\ \E d \in doms : d.widget = "InlineImageWidget" /\ d.outcome = "failed"
                        /\ d.shown = "[Missing: a.png]"
    /\ \E d \in doms : d.widget = "FileChipWidget" /\ d.outcome = "missing" /\ d.shown = "b.pdf"

\* the candidate names of a call before candidate number n (0 is base.ext)
CandidatesBefore(call, n) ==
    { IF j = 0 THEN call.base \o "." \o call.ext
      ELSE call.base \o "-" \o ToString(j) \o "." \o call.ext : j \in 0..(n - 1) }

\* C20: storing never overwrites a file: for every call that has returned,
\* the name it returned holds the bytes of its blob, and is the first of
\* base.ext, base-1.ext, ... that was unused or held the same bytes (every
\* candidate before it is a file with other bytes).
C20_StoreNeverOverwrites ==
    \A k \in 1..Len(storeCalls) :
        LET call == storeCalls[k]
        IN  call.pc = "done" =>
              /\ call.returned \in DOMAIN directory
              /\ buffersEqual(directory[call.returned], call.bytes)
              /\ \A name \in CandidatesBefore(call, call.counter - 1) :
                    /\ name \in DOMAIN directory
                    /\ ~buffersEqual(directory[name], call.bytes)

\* the same of MemoryImageStore alone
C20_MemoryStoreNeverOverwrites ==
    storeKind = "memory" => C20_StoreNeverOverwrites

\* MemoryImageStore: three blobs of one name, the third equal to the second
C20_MemoryThirdDeduplicated ==
    /\ storeKind = "memory"
    /\ Len(storeCalls) = 3
    /\ storeCalls[1].returned = "p.png"
    /\ storeCalls[2].returned = "p-1.png"
    /\ storeCalls[3].returned = "p-1.png"
    /\ DOMAIN directory = {"p.png", "p-1.png"}

\* C21: listActive returns exactly the notes that are not deleted, ordered
\* by updatedAt descending.
C21_ListActiveByUpdatedAt ==
    LET active == listActive(notes)
    IN  /\ { active[i] : i \in 1..Len(active) } = { id \in DOMAIN notes : ~notes[id].deleted }
        /\ \A i \in 1..Len(active), j \in 1..Len(active) :
              i < j => notes[active[i]].updatedAt >= notes[active[j]].updatedAt

\* listActive returns exactly the notes that are not deleted, each once
C21_ListActiveExactlyNotDeleted ==
    LET active == listActive(notes)
    IN  /\ { active[i] : i \in 1..Len(active) } = { id \in DOMAIN notes : ~notes[id].deleted }
        /\ Len(active) = Cardinality({ id \in DOMAIN notes : ~notes[id].deleted })

\* the spans of the three layers
AllSpans == Spans(inlineDecorations) \cup Spans(tableDecorations) \cup Spans(fileDecorations)

\* C22: every span a rebuild emits lies within the buffer, and no hide, mark
\* or replace span is zero-width.
C22_SpansWithinBuffer ==
    \A d \in AllSpans :
        /\ 0 <= d.from /\ d.from <= d.to /\ d.to <= Len(editorView.text)
        /\ d.type \in {"mark", "replace"} => d.from < d.to

\* the same without the upper bound: from <= to, and marks and replaces
\* are not zero-width
C22_SpansOrderedAndWide ==
    \A d \in AllSpans :
        /\ 0 <= d.from /\ d.from <= d.to
        /\ d.type \in {"mark", "replace"} => d.from < d.to

\* no two entries of a layer are the same span (range, kind and payload)
NoDuplicates(layer) ==
    \A i \in 1..Len(layer), j \in 1..Len(layer) : i # j => layer[i] # layer[j]

\* C23: the decoration list a rebuild returns holds no two spans with the
\* same range, the same kind and the same payload.
C23_LayersDeduplicated ==
    /\ NoDuplicates(inlineDecorations)
    /\ NoDuplicates(tableDecorations)

\* the same of the documents without a construct nested in one of its kind
C23_DeduplicatedWithoutNesting ==
    (\A k \in 1..Len(editorView.nodes) :
        editorView.nodes[k].parent # 0
            => editorView.nodes[editorView.nodes[k].parent].name # editorView.nodes[k].name)
    => C23_LayersDeduplicated

\* the bare-URL matches of the buffer that end in a closing parenthesis
\* and do not start in code, each with its offset and text
UrlsEndingInParen ==
    LET lines == DocLines(editorView.text)
        ofLine(n, ms) ==
            { [from |-> lines[n].from + ms[k].index,
               matched |-> Slice(LineText(editorView.text, lines, n), ms[k].index, ms[k].end)] :
                  k \in 1..Len(ms) }
        all == UNION { ofLine(n, ExecAll("url", LineText(editorView.text, lines, n))) : n \in 1..Len(lines) }
    IN  { u \in all : /\ EndsWith(u.matched, ")")
                      /\ ~isInCode(editorView, CodeRanges(editorView), u.from) }

\* the chip or the mark of the match u covers url, and the chip shows url
UrlShownAs(u, url) ==
    \E d \in Spans(inlineDecorations) :
        /\ d.from = u.from /\ d.to = u.from + Len(url)
        /\ \/ d.type = "mark" /\ d.cls = "cm-url-chip"
           \/ d.type = "replace" /\ d.w = "URLChipWidget" /\ d.a = url

\* C24 as stated: the trailing parenthesis is kept when the match holds more
\* opening than closing parentheses and is stripped otherwise
C24_ParenStrippedUnlessMoreOpen ==
    \A u \in UrlsEndingInParen :
        UrlShownAs(u, StripTrailing(TrailingPunct,
                                    IF CountChar(u.matched, "(", 0) > CountChar(u.matched, ")", 0)
                                    THEN u.matched
                                    ELSE Slice(u.matched, 0, Len(u.matched) - 1)))

\* C24: for a bare-URL match that ends in a closing parenthesis, the
\* parenthesis is stripped exactly when the match holds more closing than
\* opening parentheses (it is kept when they balance), trailing punctuation
\* is stripped from the result, and the chip or mark covers and shows that.
C24_ParenStrippedWhenMoreClosed ==
    \A u \in UrlsEndingInParen :
        UrlShownAs(u, StripTrailing(TrailingPunct,
                                    IF CountChar(u.matched, ")", 0) > CountChar(u.matched, "(", 0)
                                    THEN Slice(u.matched, 0, Len(u.matched) - 1)
                                    ELSE u.matched))

\* a balanced match shown with its parenthesis, after a paragraph was typed
\* above it
C24_Witness ==
    /\ pads.above = 1
    /\ \E u \in UrlsEndingInParen :
          /\ u.matched = "http://a/(b)"
          /\ UrlShownAs(u, "http://a/(b)")

\* the visible list items of a bullet list
BulletItems ==
    { k \in 1..Len(editorView.nodes) :
         /\ editorView.nodes[k].name = "ListItem"
         /\ Visible(editorView.nodes[k])
         /\ editorView.nodes[k].parent # 0
         /\ editorView.nodes[editorView.nodes[k].parent].name = "BulletList" }

\* the marker of item k is replaced by the bullet glyph of the item's depth
MarkerReplaced(k) ==
    LET depth == CountAncestors(editorView, editorView.nodes[k].parent, {"BulletList", "OrderedList"})
        kids == Children(editorView, k)
    IN  /\ kids # << >>
        /\ \E d \in Spans(inlineDecorations) :
              /\ d.type = "replace" /\ d.w = "BulletWidget"
              /\ d.from = editorView.nodes[kids[1]].from
              /\ d.a = bulletChars[Min(depth - 1, Len(bulletChars) - 1) + 1]

\* item k holds a task marker
ItemHasTask(k) ==
    \E j \in 1..Len(editorView.nodes) :
        editorView.nodes[j].parent = k /\ editorView.nodes[j].name \in {"Task", "TaskMarker"}

\* the line of item k carries the bullet-list class of the item's depth
ItemLineClassed(k) ==
    LET lines == DocLines(editorView.text)
        depth == CountAncestors(editorView, editorView.nodes[k].parent, {"BulletList", "OrderedList"})
    IN  \E d \in Spans(inlineDecorations) :
            /\ d.type = "line"
            /\ d.from = lines[LineAt(lines, editorView.nodes[k].from)].from
            /\ d.cls = "cm-bullet-list-line cm-list-depth-" \o ToString(Min(depth, 4))

\* C25: for every bullet-list item, the marker is replaced by the
\* depth-indexed bullet glyph exactly when the item holds no task marker and
\* the cursor is not on the marker's line (or the editor is read-only), and
\* the depth-scoped line class is on the item's line in every case
C25_BulletReplacedOffMarkerLine ==
    \A k \in BulletItems :
        LET lines == DocLines(editorView.text)
            onMarkerLine == /\ ~editorView.readOnly
                            /\ LineAt(lines, editorView.head) = LineAt(lines, editorView.nodes[k].from)
        IN  /\ MarkerReplaced(k) <=> (~ItemHasTask(k) /\ ~onMarkerLine)
            /\ ItemLineClassed(k)

\* what the decorations do: the marker is replaced exactly when the item
\* holds no task marker and the cursor is on none of the lines of the item,
\* nested items included; the line class is applied in every case
C25_BulletReplacedOffItemLines ==
    \A k \in BulletItems :
        LET lines == DocLines(editorView.text)
            cursorLine == LineAt(lines, editorView.head)
            onItem == /\ ~editorView.readOnly
                      /\ cursorLine >= LineAt(lines, editorView.nodes[k].from)
                      /\ cursorLine <= LineAt(lines, editorView.nodes[k].to)
        IN  /\ MarkerReplaced(k) <=> (~ItemHasTask(k) /\ ~onItem)
            /\ ItemLineClassed(k)

\* the cursor on the nested item of "- a" leaves the marker of "- a" raw
C25_OuterMarkerRawOnNestedLine ==
    /\ editorView.text = "- a\n  - b"
    /\ editorView.head = 4
    /\ ~editorView.readOnly
    /\ \E k \in BulletItems : editorView.nodes[k].from = 0 /\ ~MarkerReplaced(k)

\* nothing is pending: no debounced save, no selectNote in flight
SessionIdle == saveTimeout = << >> /\ selectNoteCall.pc = "idle"

\* C26: once nothing is pending, every note holds the content last typed
\* into it, and a note into which nothing was typed holds what it held at
\* the start, whatever switches to other notes or to a new note happened
\* within the debounce window
C26_LastTypedPersistedUnderItsId ==
    SessionIdle =>
        \A id \in DOMAIN savedContent :
            /\ typedInto[id] # "" => savedContent[id] = typedInto[id]
            /\ typedInto[id] = "" /\ id \in DOMAIN InitialNotes => savedContent[id] = InitialNotes[id]

\* note 1 still holds "a" after "x" was typed into it and note 2 was
\* selected, with nothing pending
C26_TypedContentLost ==
    /\ SessionIdle
    /\ activeNoteId = 2
    /\ typedInto[1] = "x"
    /\ savedContent[1] = "a"

\* the content typed into note 1 was written to note 2 while selectNote(2)
\* was in flight
C26_TypedContentUnderOtherId ==
    /\ selectNoteCall.pc = "get"
    /\ selectNoteCall.id = 2
    /\ typedInto[1] = "x"
    /\ typedInto[2] = ""
    /\ savedContent[2] = "x"

\* C27: as soon as updateContacts(c) has returned, the mention decorations
\* are those computed from c: a chip for every handle that resolves in c
\* and does not contain the cursor, none for a handle absent from c
C27_ChipsFollowContacts ==
    [][mentionState'.contacts # mentionState.contacts =>
          mentionDecorations' = buildMentionDecorations(mentionState')]_vars

\* after a change of the document or of the selection the chips are those
\* computed from the contacts
C27_ChipsFollowDocAndSelection ==
    [][mentionState'.doc # mentionState.doc \/ mentionState'.head # mentionState.head =>
          mentionDecorations' = buildMentionDecorations(mentionState')]_vars

\* "@ax" resolves in the contacts and the cursor is outside it, yet no chip
\* is shown
C27_ResolvedHandleWithoutChip ==
    /\ mentionState.doc = "@b @Ax\n@ax"
    /\ mentionState.head = 0
    /\ mentionState.contacts = << [handle |-> "ax", displayName |-> "Xa"] >>
    /\ mentionDecorations = << >>

\* a chip remains for "@ax" after the contacts were emptied
C27_ChipForAbsentHandle ==
    /\ mentionState.contacts = << >>
    /\ \E i \in 1..Len(mentionDecorations) : mentionDecorations[i].handle = "ax"

\* the inline-code and fenced-code nodes of the buffer
CodeNodes ==
    { k \in 1..Len(editorView.nodes) : editorView.nodes[k].name \in {"InlineCode", "FencedCode"} }

IsFormula(d) == d.type = "replace" /\ d.w \in {"InlineMathWidget", "BlockMathWidget"}

\* C28: no formula widget replaces text inside an inline-code or
\* fenced-code node: no formula Replace span of the block layer overlaps a
\* code node
C28_NoFormulaInCode ==
    \A d \in Spans(tableDecorations) :
        IsFormula(d) => \A k \in CodeNodes : ~Overlap(d, editorView.nodes[k])

\* outside code nodes the formula widgets come and go with the cursor's
\* line only: a formula Replace span never lies on the line of the cursor
\* of an editable buffer
C28_NoFormulaOnCursorLine ==
    \A d \in Spans(tableDecorations) :
        IsFormula(d) /\ ~editorView.readOnly => ~CursorWithinLines(d.from, d.to)

\* the formula inside the inline code of line 2 is replaced by a widget
\* while the cursor is on line 1
C28_FormulaWidgetInInlineCode ==
    /\ editorView.text = "x\n'$a$'"
    /\ editorView.head = 0
    /\ \E d \in Spans(tableDecorations) :
          /\ d.w = "InlineMathWidget" /\ d.a = "a"
          /\ d.from = 3 /\ d.to = 6
    /\ \E d \in Spans(inlineDecorations) :
          d.type = "mark" /\ d.cls = "cm-code" /\ Overlap(d, [from |-> 3, to |-> 6])

\* the notes with a remote copy that were moved to the trash after that copy
\* was last written
TrashedSinceSync ==
    { id \in DOMAIN notes \cap DOMAIN remoteNotes :
         notes[id].deleted /\ notes[id].deletedAt > remoteNotes[id].modifiedTime }

\* C29: a note moved to the trash locally after it was last synced is still
\* in the trash after the next sync in direction "both", and its remote copy
\* is deleted, not downloaded back over the local note
C29_TrashedStaysTrashed ==
    [][syncCount' # syncCount =>
          \A id \in TrashedSinceSync : notes'[id].deleted /\ id \notin DOMAIN remoteNotes']_vars

\* what the sync does: the trashed note stays trashed and its remote copy is
\* deleted when the note was also edited after the remote copy was written
C29_TrashedAndEditedStaysTrashed ==
    [][syncCount' # syncCount =>
          \A id \in TrashedSinceSync :
              notes[id].updatedAt > remoteNotes[id].modifiedTime =>
                  notes'[id].deleted /\ id \notin DOMAIN remoteNotes']_vars

\* C30: sync runs never overlap: at no time do two runs have operations
\* pending, a run that ended with an error included
C30_RunsNeverOverlap ==
    \A r1, r2 \in 1..Len(syncRunList) :
        r1 # r2 => ~(HasPending(syncRunList[r1]) /\ HasPending(syncRunList[r2]))

\* what the isSyncing flag gives: at most one run has not ended, and the
\* flag is set exactly while there is one
C30_OneRunNotEnded ==
    /\ \A r1, r2 \in 1..Len(syncRunList) :
          r1 # r2 => syncRunList[r1].ended # "no" \/ syncRunList[r2].ended # "no"
    /\ isSyncing <=> \E r \in 1..Len(syncRunList) : syncRunList[r].ended = "no"

\* the first run ended with an error, one of its operations is still
\* pending, and the second run has started its operations
C30_SecondRunDuringFirst ==
    /\ Len(syncRunList) = 2
    /\ syncRunList[1].ended = "error"
    /\ HasPending(syncRunList[1])
    /\ HasPending(syncRunList[2])

====
